---- MODULE Spec2Model ----
(***************************************************************************)
(* Move execution and spatial-state engine of the N x N x N cube           *)
(* (src/unnamed/part_000 = the App component, src/components/RubiksCube.tsx *)
(* lines 267-983 = the sized, interactive RubiksCube component).           *)
(*                                                                         *)
(* Number representation.  Lengths are fixed-point integers counted in     *)
(* units of the snap epsilon 0.001 (Unit = 1.0), so the half-integer       *)
(* lattice of an even cube, every tolerance of the code (0.01, 0.1, 0.25)  *)
(* and the epsilon bias of snap() are exact integers.  Angles are degrees  *)
(* (HalfPi = 90); a frame delta is counted in units of pi/180 s (about one *)
(* 60 Hz frame), so that delta * animSpeed is the progress in degrees.     *)
(* An orientation (a unit quaternion in the code) is the 3x3 rotation      *)
(* matrix it denotes; at rest its entries are in {-1,0,1}.                 *)
(*                                                                         *)
(* React scheduling.  A state update made by a handler is rendered before  *)
(* the next frame tick or input event runs, so every handler reads the     *)
(* current state; an effect (the hint useEffect) runs with the render that *)
(* follows the update and is therefore part of the action that changes     *)
(* its dependency.                                                         *)
(* LagSpec drops the first assumption for the frame callback: a tick may   *)
(* run with isAnimating and moveQueue as the last render closed over them  *)
(* (renderedIsAnimating, renderedMoveQueue), the re-render being a step of *)
(* its own; in every other specification the two follow the state at once. *)
(***************************************************************************)
EXTENDS Integers, Sequences, FiniteSets, TLC

VARIABLES cubeSize, cubies, attached, pivot, isAnimating, animationProgress,
          currentMove, selection, moveQueue, history, isShaking, activeHint,
          hoveredId, hoveredFace, renderedIsAnimating, renderedMoveQueue

vars == <<cubeSize, cubies, attached, pivot, isAnimating, animationProgress,
          currentMove, selection, moveQueue, history, isShaking, activeHint,
          hoveredId, hoveredFace, renderedIsAnimating, renderedMoveQueue>>

(* ------------------------------ bounds --------------------------------- *)
\* cube sizes explored (the slider offers 2..10)
Sizes == {2, 3}
\* History holds at most MaxHistory moves; a shuffle generates one move less
MaxHistory == 2
MaxShuffle == MaxHistory - 1
\* floating-point drift of a re-attached transform, in epsilons / degrees
MaxDrift == 1
\* frame deltas offered to a tick
Deltas == {5, 10}

(* --------------------------- program constants ------------------------- *)
SnapEpsilon == 1
Unit == 1000 * SnapEpsilon
Half == Unit \div 2
HalfPi == 90
DefaultAnimSpeed == 6
DefaultSolveSpeed == 15
ShuffleFloor == 25
\* the size slider (min, max) and the size the app starts with
MinCubeSize == 2
MaxCubeSize == 10
DEFAULT_CUBE_SIZE == 10
SliderSizes == MinCubeSize..MaxCubeSize
SurfaceEpsilon == 10 * SnapEpsilon
SliceTolerance == 250 * SnapEpsilon
HintTolerance == 100 * SnapEpsilon
FaceEpsilon == 250 * SnapEpsilon
\* null (a Move, a Selection or null)
None == [null |-> TRUE]
\* null where the other values are piece ids, and where they are face names
NoId == 0 - 1
NoFace == "null"

Axes == {"x", "y", "z"}
Faces == {"R", "L", "U", "D", "F", "B"}

(* ------------------------------ arithmetic ----------------------------- *)
Abs(v) == IF v < 0 THEN -v ELSE v
Max2(a, b) == IF a > b THEN a ELSE b
Min2(a, b) == IF a < b THEN a ELSE b
Sign(v) == IF v > 0 THEN 1 ELSE IF v < 0 THEN -1 ELSE 0
\* Math.round(num / den) for den > 0: floor(num/den + 1/2)
MathRound(num, den) == (2 * num + den) \div (2 * den)

(* ------------------------- vectors and matrices ------------------------ *)
AxisIndex(axis) == IF axis = "x" THEN 1 ELSE IF axis = "y" THEN 2 ELSE 3
Cross(a, b) == << a[2] * b[3] - a[3] * b[2],
                  a[3] * b[1] - a[1] * b[3],
                  a[1] * b[2] - a[2] * b[1] >>
MatVec(m, v) == [i \in 1..3 |-> m[i][1] * v[1] + m[i][2] * v[2] + m[i][3] * v[3]]
MatMul(a, b) == [i \in 1..3 |-> [j \in 1..3 |->
                   a[i][1] * b[1][j] + a[i][2] * b[2][j] + a[i][3] * b[3][j]]]
Identity == << <<1, 0, 0>>, <<0, 1, 0>>, <<0, 0, 1>> >>
\* cos and sin of a whole number of quarter turns
CosQ(k) == LET r == k % 4 IN IF r = 0 THEN 1 ELSE IF r = 2 THEN -1 ELSE 0
SinQ(k) == LET r == k % 4 IN IF r = 1 THEN 1 ELSE IF r = 3 THEN -1 ELSE 0
\* rotation matrix of k quarter turns about a basis axis
AxisRotation(axis, k) ==
  LET c == CosQ(k)
      s == SinQ(k)
  IN  IF axis = "x" THEN << <<1, 0, 0>>, <<0, c, -s>>, <<0, s, c>> >>
      ELSE IF axis = "y" THEN << <<c, 0, s>>, <<0, 1, 0>>, <<-s, 0, c>> >>
      ELSE << <<c, -s, 0>>, <<s, c, 0>>, <<0, 0, 1>> >>

(* ------------------------------ Lattice Model -------------------------- *)
Offset(size) == ((size - 1) * Unit) \div 2
\* fault: interior grid points count as surface
isSurfaceAny(x, y, z, size) == TRUE
\* fault: only points on three faces at once count as surface
isSurfaceCorner(x, y, z, size) ==
  LET limit == Offset(size)
  IN  /\ Abs(Abs(x) - limit) < SurfaceEpsilon
      /\ Abs(Abs(y) - limit) < SurfaceEpsilon
      /\ Abs(Abs(z) - limit) < SurfaceEpsilon
isSurface(x, y, z, size) ==
  LET limit == Offset(size)
  IN  \/ Abs(Abs(x) - limit) < SurfaceEpsilon
      \/ Abs(Abs(y) - limit) < SurfaceEpsilon
      \/ Abs(Abs(z) - limit) < SurfaceEpsilon
\* the grid in loop order x, y, z (outer to inner)
GridPoint(i, size) ==
  << ((i - 1) \div (size * size)) * Unit - Offset(size),
     (((i - 1) \div size) % size) * Unit - Offset(size),
     ((i - 1) % size) * Unit - Offset(size) >>
initialPositions(size) ==
  LET grid == [i \in 1..(size * size * size) |-> GridPoint(i, size)]
      surf == SelectSeq(grid, LAMBDA p : isSurface(p[1], p[2], p[3], size))
  IN  [n \in 1..Len(surf) |->
         [id |-> n - 1,
          x |-> surf[n][1], y |-> surf[n][2], z |-> surf[n][3],
          initialX |-> surf[n][1], initialY |-> surf[n][2], initialZ |-> surf[n][3],
          q |-> Identity]]

(* ---------------------------- Transform Snapper ------------------------ *)
\* Math.atan2 of two matrix entries, in degrees; negZero: the first argument
\* is a negated entry, so a zero entry reaches atan2 as -0
Atan2Deg(b, a, negZero) ==
  IF b > 0 THEN HalfPi
  ELSE IF b < 0 THEN -HalfPi
  ELSE IF a > 0 THEN 0
  ELSE IF negZero THEN -2 * HalfPi ELSE 2 * HalfPi
\* THREE.Euler.setFromQuaternion, order XYZ, of the orientation m tilted by
\* the angular error tilt
setFromQuaternion(m, tilt) ==
  LET ey == HalfPi * m[1][3]
      locked == Abs(m[1][3]) = 1
      ex == IF locked THEN Atan2Deg(m[3][2], m[2][2], FALSE)
                      ELSE Atan2Deg(-m[2][3], m[3][3], TRUE)
      ez == IF locked THEN 0 ELSE Atan2Deg(-m[1][2], m[1][1], TRUE)
  IN  << ex + tilt, ey + tilt, IF locked THEN 0 ELSE ez + tilt >>
snapAngle(angle) == MathRound(angle, HalfPi) * HalfPi
\* obj.rotation.set(x, y, z): the rotation Rx * Ry * Rz of whole quarter turns
rotationSet(ex, ey, ez) ==
  MatMul(AxisRotation("x", ex \div HalfPi),
         MatMul(AxisRotation("y", ey \div HalfPi), AxisRotation("z", ez \div HalfPi)))
\* fault: the half-integer lattice of an even cube is ignored
snapNoParity(val, size) == MathRound(val + SnapEpsilon, Unit) * Unit
\* fault: the coordinate is left as re-attachment produced it
snapNoRound(val, size) == val
\* fault: the rounding epsilon is half a lattice step
snapHalfEpsilon(val, size) ==
  IF size % 2 = 0
    THEN MathRound(val - Half + Half, Unit) * Unit + Half
    ELSE MathRound(val + Half, Unit) * Unit
snap(val, size) ==
  IF size % 2 = 0
    THEN MathRound(val - Half + SnapEpsilon, Unit) * Unit + Half
    ELSE MathRound(val + SnapEpsilon, Unit) * Unit
\* obj = [pos, q, tilt]: position, nearest axis-aligned orientation and the
\* angle by which the true orientation is off it
snapTransform(obj, size) ==
  LET euler == setFromQuaternion(obj.q, obj.tilt)
  IN  [pos |-> << snap(obj.pos[1], size), snap(obj.pos[2], size), snap(obj.pos[3], size) >>,
       q |-> rotationSet(snapAngle(euler[1]), snapAngle(euler[2]), snapAngle(euler[3]))]

(* ------------------------------ Slice Selector ------------------------- *)
Coord(cubie, axis) == IF axis = "x" THEN cubie.x ELSE IF axis = "y" THEN cubie.y ELSE cubie.z
\* fault: a tolerance wider than the lattice spacing
inSliceWide(cubie, move, size) ==
  LET coordinateValue == move.layer * Unit - Offset(size)
  IN  Abs(Coord(cubie, move.axis) - coordinateValue) < 5 * SliceTolerance
\* fault: the layer index read as one-based
inSliceOneBased(cubie, move, size) ==
  LET coordinateValue == (move.layer - 1) * Unit - Offset(size)
  IN  Abs(Coord(cubie, move.axis) - coordinateValue) < SliceTolerance
\* fault: a tolerance of one lattice spacing, inclusive
inSliceSpacing(cubie, move, size) ==
  LET coordinateValue == move.layer * Unit - Offset(size)
  IN  Abs(Coord(cubie, move.axis) - coordinateValue) <= Unit
inSlice(cubie, move, size) ==
  LET coordinateValue == move.layer * Unit - Offset(size)
  IN  Abs(Coord(cubie, move.axis) - coordinateValue) < SliceTolerance
Slice(cs, move, size) == {cs[n].id : n \in {i \in 1..Len(cs) : inSlice(cs[i], move, size)}}

\* the sticker faces the render gives a piece
isActive(cubie, size) ==
  LET offset == Offset(size)
  IN  {f \in Faces :
         \/ f = "R" /\ cubie.initialX = offset
         \/ f = "L" /\ cubie.initialX = -offset
         \/ f = "U" /\ cubie.initialY = offset
         \/ f = "D" /\ cubie.initialY = -offset
         \/ f = "F" /\ cubie.initialZ = offset
         \/ f = "B" /\ cubie.initialZ = -offset}

(* ------------------------------ Turn Animator -------------------------- *)
axisVector(axis) ==
  << IF axis = "x" THEN 1 ELSE 0, IF axis = "y" THEN 1 ELSE 0, IF axis = "z" THEN 1 ELSE 0 >>
NoRotation == <<0, 0, 0>>
\* rotatingGroup.setRotationFromAxisAngle(axisVector, angle)
setRotationFromAxisAngle(axis, angle) ==
  << IF axis = "x" THEN angle ELSE 0, IF axis = "y" THEN angle ELSE 0,
     IF axis = "z" THEN angle ELSE 0 >>
PivotAxis(p) == IF p[2] # 0 THEN "y" ELSE IF p[3] # 0 THEN "z" ELSE "x"
PivotAngle(p) == p[1] + p[2] + p[3]
\* fault: the accumulated progress is committed instead of the target
currentRotRaw(progress, move) == progress * move.direction
\* currentRot of one tick (progress already advanced)
currentRot(progress, move) ==
  IF progress >= HalfPi THEN HalfPi * move.direction ELSE progress * move.direction
\* groupRef.attach(child): the child's transform in the world container while
\* the pivot holds rotation p.  The pivot angle is split into the nearest
\* whole number of quarter turns and a residual; the residual displaces the
\* position along the tangent (first order) and tilts the orientation.
\* drift is the floating-point error of the matrix arithmetic.
attachToWorld(cubie, p, drift) ==
  LET axis == PivotAxis(p)
      k == MathRound(PivotAngle(p), HalfPi)
      residual == PivotAngle(p) - k * HalfPi
      rot == AxisRotation(axis, k)
      turned == MatVec(rot, << cubie.x, cubie.y, cubie.z >>)
      tangent == Cross(axisVector(axis), turned)
  IN  [pos |-> [i \in 1..3 |-> turned[i] + (residual * 1745 * tangent[i]) \div 100000 + drift],
       q |-> MatMul(rot, cubie.q),
       tilt |-> residual + drift]
\* fault: the commit also rebases the piece's initial coordinate
finishedCubieRebased(cubie, att, p, drift, size) ==
  IF cubie.id \in att
    THEN LET obj == snapTransform(attachToWorld(cubie, p, drift), size)
         IN  [cubie EXCEPT !.x = obj.pos[1], !.y = obj.pos[2], !.z = obj.pos[3], !.q = obj.q,
                           !.initialX = obj.pos[1], !.initialY = obj.pos[2],
                           !.initialZ = obj.pos[3]]
    ELSE cubie
\* the logical state of one cubie after finishMove (lines 736-751)
finishedCubie(cubie, att, p, drift, size) ==
  IF cubie.id \in att
    THEN LET obj == snapTransform(attachToWorld(cubie, p, drift), size)
         IN  [cubie EXCEPT !.x = obj.pos[1], !.y = obj.pos[2], !.z = obj.pos[3], !.q = obj.q]
    ELSE cubie
\* cubiesRef.current after finishMove
committedCubies(cs, att, p, drift, size) ==
  [n \in 1..Len(cs) |-> finishedCubie(cs[n], att, p, drift, size)]
\* one whole turn from rest: startMove gathers the slice, the last tick sets
\* the target rotation, finishMove commits
TurnResult(cs, move, drift, size) ==
  committedCubies(cs, Slice(cs, move, size),
                  setRotationFromAxisAngle(move.axis, currentRot(HalfPi, move)), drift, size)

(* ------------------------------ App handlers --------------------------- *)
\* the App component's state, as one record the handlers transform
AppState == [moveQueue |-> moveQueue, history |-> history, isShaking |-> isShaking,
             activeHint |-> activeHint, cubeSize |-> cubeSize]
Moves(size) == [axis : Axes, layer : 0..(size - 1), direction : {1, -1}]
isBusy(app) == app.isShaking \/ Len(app.moveQueue) > 0
Reverse(s) == [i \in 1..Len(s) |-> s[Len(s) + 1 - i]]
Negate(m) == [m EXCEPT !.direction = m.direction * (-1)]
\* Math.max(25, cubeSize * 2), capped by the bound MaxShuffle
shuffleCount(size) == Min2(Max2(ShuffleFloor, size * 2), MaxShuffle)

\* fault: the guard reads isShaking instead of the queue
handleShuffleShakingGuard(app, newMoves) ==
  IF app.isShaking THEN app
  ELSE [app EXCEPT !.isShaking = TRUE, !.activeHint = None,
                   !.moveQueue = @ \o newMoves, !.history = @ \o newMoves]
\* fault: a shuffle leaves the hint displayed
handleShuffleKeepHint(app, newMoves) ==
  IF Len(app.moveQueue) > 0 THEN app
  ELSE [app EXCEPT !.isShaking = TRUE,
                   !.moveQueue = @ \o newMoves, !.history = @ \o newMoves]
handleShuffle(app, newMoves) ==
  IF Len(app.moveQueue) > 0 THEN app
  ELSE [app EXCEPT !.isShaking = TRUE, !.activeHint = None,
                   !.moveQueue = @ \o newMoves, !.history = @ \o newMoves]

\* fault: History is negated but not reversed
handleSolveNoReverse(app) ==
  IF Len(app.moveQueue) > 0 \/ Len(app.history) = 0 THEN app
  ELSE [app EXCEPT !.isShaking = TRUE, !.activeHint = None,
                   !.moveQueue = [i \in 1..Len(app.history) |-> Negate(app.history[i])],
                   !.history = <<>>]
\* fault: History is reversed but not negated
handleSolveNoNegate(app) ==
  IF Len(app.moveQueue) > 0 \/ Len(app.history) = 0 THEN app
  ELSE [app EXCEPT !.isShaking = TRUE, !.activeHint = None,
                   !.moveQueue = Reverse(app.history), !.history = <<>>]
handleSolve(app) ==
  IF Len(app.moveQueue) > 0 \/ Len(app.history) = 0 THEN app
  ELSE LET reversed == Reverse(app.history)
           solveMoves == [i \in 1..Len(reversed) |-> Negate(reversed[i])]
       IN  [app EXCEPT !.isShaking = TRUE, !.activeHint = None,
                       !.moveQueue = solveMoves, !.history = <<>>]

handleHint(app) ==
  IF isBusy(app) \/ Len(app.history) = 0 THEN app
  ELSE LET lastMove == app.history[Len(app.history)]
       IN  [app EXCEPT !.activeHint = [axis |-> lastMove.axis, layer |-> lastMove.layer,
                                       direction |-> lastMove.direction * (-1)]]

\* fault: an accepted manual move is queued but not recorded
handleDirectMoveNoHistory(app, move) ==
  IF app.isShaking \/ Len(app.moveQueue) > 0 THEN app
  ELSE IF /\ app.activeHint # None
          /\ move.axis = app.activeHint.axis
          /\ move.layer = app.activeHint.layer
          /\ move.direction = app.activeHint.direction
    THEN [app EXCEPT !.activeHint = None,
                     !.history = SubSeq(@, 1, Len(@) - 1),
                     !.moveQueue = <<move>>]
    ELSE [app EXCEPT !.activeHint = None, !.moveQueue = <<move>>]
\* fault: the direction of the move is not compared with the hint
handleDirectMoveAnyDirection(app, move) ==
  IF app.isShaking \/ Len(app.moveQueue) > 0 THEN app
  ELSE IF /\ app.activeHint # None
          /\ move.axis = app.activeHint.axis
          /\ move.layer = app.activeHint.layer
    THEN [app EXCEPT !.activeHint = None,
                     !.history = SubSeq(@, 1, Len(@) - 1),
                     !.moveQueue = <<move>>]
    ELSE [app EXCEPT !.activeHint = None,
                     !.moveQueue = <<move>>,
                     !.history = Append(@, move)]
handleDirectMove(app, move) ==
  IF app.isShaking \/ Len(app.moveQueue) > 0 THEN app
  ELSE IF /\ app.activeHint # None
          /\ move.axis = app.activeHint.axis
          /\ move.layer = app.activeHint.layer
          /\ move.direction = app.activeHint.direction
    THEN [app EXCEPT !.activeHint = None,
                     !.history = SubSeq(@, 1, Len(@) - 1),
                     !.moveQueue = <<move>>]
    ELSE [app EXCEPT !.activeHint = None,
                     !.moveQueue = <<move>>,
                     !.history = Append(@, move)]

\* fault: the callback drops two moves
onMoveCompleteTwo(app) ==
  LET next == IF Len(app.moveQueue) <= 1 THEN <<>> ELSE Tail(Tail(app.moveQueue))
  IN  [app EXCEPT !.moveQueue = next,
                  !.isShaking = IF Len(next) = 0 THEN FALSE ELSE @]
\* fault: the sequence-finished signal is never given
onMoveCompleteKeepShaking(app) ==
  LET next == IF Len(app.moveQueue) = 0 THEN <<>> ELSE Tail(app.moveQueue)
  IN  [app EXCEPT !.moveQueue = next]
onMoveComplete(app) ==
  LET next == IF Len(app.moveQueue) = 0 THEN <<>> ELSE Tail(app.moveQueue)
  IN  [app EXCEPT !.moveQueue = next,
                  !.isShaking = IF Len(next) = 0 THEN FALSE ELSE @]

handleSizeChange(app, newSize) ==
  IF isBusy(app) THEN app
  ELSE [app EXCEPT !.cubeSize = newSize, !.history = <<>>, !.moveQueue = <<>>,
                   !.activeHint = None]

\* the Escape branch of handleKeyDown
handleEscape(app) == IF isBusy(app) THEN app ELSE [app EXCEPT !.activeHint = None]

SetApp(app) ==
  /\ moveQueue' = app.moveQueue
  /\ history' = app.history
  /\ isShaking' = app.isShaking
  /\ activeHint' = app.activeHint
  /\ cubeSize' = app.cubeSize

(* ------------------------------ Hint Locator --------------------------- *)
preferredFace(hint) == IF hint.axis = "z" THEN "U" ELSE "F"
\* fault: the target coordinate taken as the layer index, without the offset
isCandidateNoOffset(c, hint, size) ==
  /\ Abs(Coord(c, hint.axis) - hint.layer * Unit) < HintTolerance
  /\ IF preferredFace(hint) = "F" THEN Abs(c.z - Offset(size)) < HintTolerance
                                  ELSE Abs(c.y - Offset(size)) < HintTolerance
isCandidate(c, hint, size) ==
  /\ Abs(Coord(c, hint.axis) - (hint.layer * Unit - Offset(size))) < HintTolerance
  /\ IF preferredFace(hint) = "F" THEN Abs(c.z - Offset(size)) < HintTolerance
                                  ELSE Abs(c.y - Offset(size)) < HintTolerance
\* Array.find: index of the first candidate, 0 when there is none
findCandidate(cs, hint, size) ==
  LET hits == {n \in 1..Len(cs) : isCandidate(cs[n], hint, size)}
  IN  IF hits = {} THEN 0 ELSE CHOOSE n \in hits : \A k \in hits : n <= k
\* the useEffect on [activeHint, size]; sel is the Selection before it runs
hintEffect(hint, sel, cs, size) ==
  IF hint # None /\ Len(cs) > 0
    THEN LET n == findCandidate(cs, hint, size)
             normalVector == IF preferredFace(hint) = "U" THEN <<0, 1, 0>> ELSE <<0, 0, 1>>
         IN  IF n = 0 THEN sel
             ELSE [id |-> cs[n].id, face |-> preferredFace(hint),
                   normal |-> MatVec(cs[n].q, normalVector),
                   cubiePos |-> << cs[n].x, cs[n].y, cs[n].z >>]
    ELSE None

(* ------------------------------- Face Picker --------------------------- *)
localNormalOf(face) ==
  IF face = "R" THEN <<1, 0, 0>> ELSE IF face = "L" THEN <<-1, 0, 0>>
  ELSE IF face = "U" THEN <<0, 1, 0>> ELSE IF face = "D" THEN <<0, -1, 0>>
  ELSE IF face = "F" THEN <<0, 0, 1>> ELSE <<0, 0, -1>>
\* fault: the check looks at the normal only, not at where the piece is
checkFaceOrientationNormalOnly(localFace, q, cx, cy, cz, size) ==
  LET worldNormal == MatVec(q, localNormalOf(localFace))
  IN  \E i \in 1..3 : 10 * worldNormal[i] > 9 \/ 10 * worldNormal[i] < -9
\* worldNormal components are compared with 0.9: 10 * n > 9
checkFaceOrientation(localFace, q, cx, cy, cz, size) ==
  LET limit == Offset(size)
      worldNormal == MatVec(q, localNormalOf(localFace))
  IN  \/ 10 * worldNormal[1] > 9 /\ cx > limit - FaceEpsilon
      \/ 10 * worldNormal[1] < -9 /\ cx < -limit + FaceEpsilon
      \/ 10 * worldNormal[2] > 9 /\ cy > limit - FaceEpsilon
      \/ 10 * worldNormal[2] < -9 /\ cy < -limit + FaceEpsilon
      \/ 10 * worldNormal[3] > 9 /\ cz > limit - FaceEpsilon
      \/ 10 * worldNormal[3] < -9 /\ cz < -limit + FaceEpsilon
\* face and local normal picked by handleClick for a local hit point
clickFace(localPoint) ==
  LET absX == Abs(localPoint[1])
      absY == Abs(localPoint[2])
      absZ == Abs(localPoint[3])
  IN  IF absX > absY /\ absX > absZ
        THEN [normal |-> <<Sign(localPoint[1]), 0, 0>>,
              face |-> IF localPoint[1] > 0 THEN "R" ELSE "L"]
      ELSE IF absY > absX /\ absY > absZ
        THEN [normal |-> <<0, Sign(localPoint[2]), 0>>,
              face |-> IF localPoint[2] > 0 THEN "U" ELSE "D"]
      ELSE [normal |-> <<0, 0, Sign(localPoint[3])>>,
            face |-> IF localPoint[3] > 0 THEN "F" ELSE "B"]
\* face picked by handlePointerMove (hover) for a local hit point
hoverFace(localPoint) ==
  LET absX == Abs(localPoint[1])
      absY == Abs(localPoint[2])
      absZ == Abs(localPoint[3])
  IN  IF absX > absY /\ absX > absZ THEN (IF localPoint[1] > 0 THEN "R" ELSE "L")
      ELSE IF absY > absX /\ absY > absZ THEN (IF localPoint[2] > 0 THEN "U" ELSE "D")
      ELSE (IF localPoint[3] > 0 THEN "F" ELSE "B")
CubieById(cs, id) == cs[CHOOSE n \in 1..Len(cs) : cs[n].id = id]
\* fault: an invalid pick leaves the Selection as it was
clickSelectionKeep(sel, cs, cubieId, localPoint, size) ==
  LET cubieData == CubieById(cs, cubieId)
      pick == clickFace(localPoint)
  IN  IF ~checkFaceOrientation(pick.face, cubieData.q, cubieData.x, cubieData.y,
                               cubieData.z, size)
        THEN sel
        ELSE [id |-> cubieId, face |-> pick.face,
              normal |-> MatVec(cubieData.q, pick.normal),
              cubiePos |-> << cubieData.x, cubieData.y, cubieData.z >>]
\* the Selection handleClick leaves behind (sel: the Selection before)
clickSelection(sel, cs, cubieId, localPoint, size) ==
  LET cubieData == CubieById(cs, cubieId)
      pick == clickFace(localPoint)
  IN  IF ~checkFaceOrientation(pick.face, cubieData.q, cubieData.x, cubieData.y,
                               cubieData.z, size)
        THEN None
        ELSE [id |-> cubieId, face |-> pick.face,
              normal |-> MatVec(cubieData.q, pick.normal),
              cubiePos |-> << cubieData.x, cubieData.y, cubieData.z >>]

(* ------------------------ Gesture-to-Move Translator ------------------- *)
Directions == {"UP", "DOWN", "LEFT", "RIGHT"}
\* camera positions offered to an arrow press (the camera orbits the origin
\* and looks at it; camera.up is +y)
Cameras == { <<16, 12, 20>> }
\* the swipe vector in world space, up to a positive factor (normalize()
\* does not change which component is largest nor its sign)
moveVec(dir, cameraPos) ==
  LET viewDir == << -cameraPos[1], -cameraPos[2], -cameraPos[3] >>
      camRight == Cross(viewDir, <<0, 1, 0>>)
      realCamUp == Cross(camRight, viewDir)
  IN  IF dir = "UP" THEN realCamUp
      ELSE IF dir = "DOWN" THEN << -realCamUp[1], -realCamUp[2], -realCamUp[3] >>
      ELSE IF dir = "RIGHT" THEN camRight
      ELSE << -camRight[1], -camRight[2], -camRight[3] >>
\* fault: a zero component gives direction -1
arrowMoveMinusOnZero(sel, dir, cameraPos, size) ==
  LET v == Cross(sel.normal, moveVec(dir, cameraPos))
      m1 == IF Abs(v[1]) > 0 THEN Abs(v[1]) ELSE 0
      a2 == IF Abs(v[2]) > m1 THEN "y" ELSE "x"
      m2 == IF Abs(v[2]) > m1 THEN Abs(v[2]) ELSE m1
      axis == IF Abs(v[3]) > m2 THEN "z" ELSE a2
      sign == IF Sign(v[AxisIndex(axis)]) = 0 THEN 0 - 1 ELSE Sign(v[AxisIndex(axis)])
      layerIndex == MathRound(sel.cubiePos[AxisIndex(axis)] + Offset(size), Unit)
  IN  [axis |-> axis, layer |-> layerIndex, direction |-> sign]
\* fault: the layer index taken from the coordinate without the offset
arrowMoveNoOffset(sel, dir, cameraPos, size) ==
  LET v == Cross(sel.normal, moveVec(dir, cameraPos))
      m1 == IF Abs(v[1]) > 0 THEN Abs(v[1]) ELSE 0
      a2 == IF Abs(v[2]) > m1 THEN "y" ELSE "x"
      m2 == IF Abs(v[2]) > m1 THEN Abs(v[2]) ELSE m1
      axis == IF Abs(v[3]) > m2 THEN "z" ELSE a2
      sign == IF Sign(v[AxisIndex(axis)]) = 0 THEN 1 ELSE Sign(v[AxisIndex(axis)])
      layerIndex == MathRound(sel.cubiePos[AxisIndex(axis)], Unit)
  IN  [axis |-> axis, layer |-> layerIndex, direction |-> sign]
arrowMove(sel, dir, cameraPos, size) ==
  LET v == Cross(sel.normal, moveVec(dir, cameraPos))
      m1 == IF Abs(v[1]) > 0 THEN Abs(v[1]) ELSE 0
      a2 == IF Abs(v[2]) > m1 THEN "y" ELSE "x"
      m2 == IF Abs(v[2]) > m1 THEN Abs(v[2]) ELSE m1
      axis == IF Abs(v[3]) > m2 THEN "z" ELSE a2
      sign == IF Sign(v[AxisIndex(axis)]) = 0 THEN 1 ELSE Sign(v[AxisIndex(axis)])
      layerIndex == MathRound(sel.cubiePos[AxisIndex(axis)] + Offset(size), Unit)
  IN  [axis |-> axis, layer |-> layerIndex, direction |-> sign]
\* arrows hidden by getArrowClass while a hint is shown cannot be pressed
arrowVisible(dir, hint, sel) ==
  IF hint # None /\ sel # None
    THEN IF dir \in {"UP", "DOWN"} THEN hint.axis = "x" ELSE hint.axis \in {"y", "z"}
    ELSE TRUE

(* ------------------------------ environment ---------------------------- *)
\* the speed slider stays at its default
Speeds == {DefaultSolveSpeed}
Drifts == (-MaxDrift)..MaxDrift
\* local hit points of a click: one near the +x face, the centre of the -z face
HitPoints == { <<500, 100, 50>>, <<0, 0, -450>> }
\* the piece that receives the clicks: the last one created (+x +y +z corner)
ClickIds(cs) == {Len(cs) - 1}
\* local hit points offered to the face picker: face centres, points with two
\* or three equal magnitudes, points with zero coordinates
PickCoords == {-500, 0, 500}
PickPoints == (PickCoords \X PickCoords \X PickCoords) \cup HitPoints
\* the pieces that receive them: the first and the last one created
PickIds(cs) == {0, Len(cs) - 1}
\* camera positions offered to an arrow press on a picked face: the default
\* view, a head-on view of the front face, a view from above the back left
PickCameras == { <<16, 12, 20>>, <<0, 0, 20>>, <<-20, 20, -20>> }

(* -------------------------------- state -------------------------------- *)
Init ==
  /\ cubeSize \in Sizes
  /\ cubies = initialPositions(cubeSize)
  /\ attached = {}
  /\ pivot = NoRotation
  /\ isAnimating = FALSE
  /\ animationProgress = 0
  /\ currentMove = None
  /\ selection = None
  /\ moveQueue = <<>>
  /\ history = <<>>
  /\ isShaking = FALSE
  /\ activeHint = None
  /\ hoveredId = NoId
  /\ hoveredFace = NoFace
  /\ renderedIsAnimating = FALSE
  /\ renderedMoveQueue = <<>>

appVars == <<moveQueue, history, isShaking, activeHint, cubeSize>>
cubeVars == <<cubies, attached, pivot, isAnimating, animationProgress, currentMove>>
hoverVars == <<hoveredId, hoveredFace>>
\* isAnimating and moveQueue as the last render of the cube component closed
\* over them: what the frame callback reads
renderVars == <<renderedIsAnimating, renderedMoveQueue>>
\* the render that follows a state update before the next tick or event runs
render == renderedIsAnimating' = isAnimating' /\ renderedMoveQueue' = moveQueue'

\* the Selection after the render that follows an App update from app to a:
\* the hint effect runs when activeHint changed
renderSelection(app, a, sel, cs) ==
  IF a = app \/ (app.activeHint = None /\ a.activeHint = None) THEN sel
  ELSE hintEffect(a.activeHint, sel, cs, a.cubeSize)

(* ---------------------------- Turn Animator steps ---------------------- *)
\* fault: a move that gathers no piece is animated like any other
startMoveNoDegenerate(move) ==
  /\ animationProgress' = 0
  /\ pivot' = NoRotation
  /\ attached' = attached \cup Slice(cubies, move, cubeSize)
  /\ isAnimating' = TRUE
  /\ currentMove' = move
  /\ UNCHANGED appVars
  /\ UNCHANGED <<cubies, selection>>
  /\ UNCHANGED hoverVars
startMove(move) ==
  LET slice == Slice(cubies, move, cubeSize)
  IN  /\ animationProgress' = 0
      /\ pivot' = NoRotation
      /\ attached' = attached \cup slice
      /\ IF slice = {}
           THEN /\ isAnimating' = FALSE
                /\ currentMove' = None
                /\ SetApp(onMoveComplete(AppState))
           ELSE /\ isAnimating' = TRUE
                /\ currentMove' = move
                /\ UNCHANGED appVars
      /\ UNCHANGED <<cubies, selection>>
      /\ UNCHANGED hoverVars

\* fault: the commit leaves the pivot at the rotation of the last tick
finishMoveNoPivotReset(p, drift) ==
  /\ cubies' = committedCubies(cubies, attached, p, drift, cubeSize)
  /\ attached' = {}
  /\ selection' = IF selection = None THEN None
                  ELSE LET selCubie == CubieById(cubies', selection.id)
                       IN  [selection EXCEPT !.cubiePos = << selCubie.x, selCubie.y, selCubie.z >>]
  /\ pivot' = p
  /\ isAnimating' = FALSE
  /\ currentMove' = None
  /\ SetApp(onMoveComplete(AppState))
  /\ UNCHANGED hoverVars
\* fault: the commit leaves the Selection's cached coordinate as it was
finishMoveStale(p, drift) ==
  /\ cubies' = committedCubies(cubies, attached, p, drift, cubeSize)
  /\ attached' = {}
  /\ selection' = selection
  /\ pivot' = NoRotation
  /\ isAnimating' = FALSE
  /\ currentMove' = None
  /\ SetApp(onMoveComplete(AppState))
  /\ UNCHANGED hoverVars
\* p: the pivot rotation the tick has just set
finishMove(p, drift) ==
  /\ cubies' = committedCubies(cubies, attached, p, drift, cubeSize)
  /\ attached' = {}
  /\ selection' = IF selection = None THEN None
                  ELSE LET selCubie == CubieById(cubies', selection.id)
                       IN  [selection EXCEPT !.cubiePos = << selCubie.x, selCubie.y, selCubie.z >>]
  /\ pivot' = NoRotation
  /\ isAnimating' = FALSE
  /\ currentMove' = None
  /\ SetApp(onMoveComplete(AppState))
  /\ UNCHANGED hoverVars

\* fault: no progress is accumulated
animSpeedZero(speed) == 0
animSpeed(speed) == IF isShaking THEN speed ELSE DefaultAnimSpeed

\* useFrame, animating branch, quarter turn not yet reached
useFrameAdvance(delta, speed) ==
  /\ isAnimating /\ currentMove # None
  /\ LET progress == animationProgress + delta * animSpeed(speed)
     IN  /\ progress < HalfPi
         /\ animationProgress' = progress
         /\ pivot' = setRotationFromAxisAngle(currentMove.axis, currentRot(progress, currentMove))
  /\ UNCHANGED <<cubies, attached, isAnimating, currentMove, selection>>
  /\ UNCHANGED appVars
  /\ UNCHANGED hoverVars
  /\ render

\* useFrame, animating branch, quarter turn reached: commit
useFrameCommit(delta, speed, drift) ==
  /\ isAnimating /\ currentMove # None
  /\ LET progress == animationProgress + delta * animSpeed(speed)
     IN  /\ progress >= HalfPi
         /\ animationProgress' = progress
         /\ finishMove(setRotationFromAxisAngle(currentMove.axis,
                                                currentRot(progress, currentMove)), drift)
  /\ render

\* fault: the idle branch starts the last queued move
useFrameStartLast ==
  /\ ~isAnimating /\ Len(moveQueue) > 0
  /\ startMove(moveQueue[Len(moveQueue)])
  /\ render
\* useFrame, idle branch
useFrameStart ==
  /\ ~isAnimating /\ Len(moveQueue) > 0
  /\ startMove(moveQueue[1])
  /\ render

(* ------------------------------ input steps ---------------------------- *)
Shuffle ==
  \E newMoves \in [1..shuffleCount(cubeSize) -> Moves(cubeSize)] :
    LET a == handleShuffle(AppState, newMoves)
    IN  /\ a # AppState
        /\ Len(a.history) <= MaxHistory
        /\ SetApp(a)
        /\ selection' = renderSelection(AppState, a, selection, cubies)
        /\ UNCHANGED cubeVars
        /\ UNCHANGED hoverVars
        /\ render

Solve ==
  LET a == handleSolve(AppState)
  IN  /\ a # AppState
      /\ SetApp(a)
      /\ selection' = renderSelection(AppState, a, selection, cubies)
      /\ UNCHANGED cubeVars
      /\ UNCHANGED hoverVars
      /\ render

Hint ==
  LET a == handleHint(AppState)
  IN  /\ a # AppState
      /\ SetApp(a)
      /\ selection' = renderSelection(AppState, a, selection, cubies)
      /\ UNCHANGED cubeVars
      /\ UNCHANGED hoverVars
      /\ render

Escape ==
  LET a == handleEscape(AppState)
  IN  /\ a # AppState
      /\ SetApp(a)
      /\ selection' = renderSelection(AppState, a, selection, cubies)
      /\ UNCHANGED cubeVars
      /\ UNCHANGED hoverVars
      /\ render

\* the size slider moved to newSize; a changed key remounts the cube component
Resize(newSize) ==
  LET a == handleSizeChange(AppState, newSize)
  IN  /\ a # AppState
      /\ SetApp(a)
      /\ IF a.cubeSize # cubeSize
           THEN /\ cubies' = initialPositions(a.cubeSize)
                /\ attached' = {}
                /\ pivot' = NoRotation
                /\ isAnimating' = FALSE
                /\ animationProgress' = 0
                /\ currentMove' = None
                /\ selection' = None
                /\ hoveredId' = NoId
                /\ hoveredFace' = NoFace
           ELSE UNCHANGED <<cubies, attached, pivot, isAnimating, animationProgress,
                            currentMove, selection, hoveredId, hoveredFace>>
      /\ render

SizeChange == \E newSize \in Sizes \ {cubeSize} : Resize(newSize)
\* the slider over its whole range
SizeSlider == \E newSize \in SliderSizes \ {cubeSize} : Resize(newSize)
\* a shuffle of the solved cube
ShuffleSolved == Len(history) = 0 /\ Shuffle

\* the Selection after handleClick on a piece at a local hit point
clickOutcome(cubieId, localPoint) ==
  IF isAnimating \/ Len(moveQueue) > 0 \/ activeHint # None THEN selection
  ELSE clickSelection(selection, cubies, cubieId, localPoint, cubeSize)

handleClick(cubieId, localPoint) ==
  /\ ~(isAnimating \/ Len(moveQueue) > 0 \/ activeHint # None)
  /\ selection' = clickOutcome(cubieId, localPoint)
  /\ UNCHANGED cubeVars
  /\ UNCHANGED appVars
  /\ UNCHANGED hoverVars
  /\ render

\* hoveredId and hoveredFace after handlePointerMove (mouse, not touch)
hoverOutcome(id, localPoint) ==
  IF isAnimating \/ Len(moveQueue) > 0 \/ activeHint # None THEN << hoveredId, hoveredFace >>
  ELSE LET cubieData == CubieById(cubies, id)
           face == hoverFace(localPoint)
       IN  IF ~checkFaceOrientation(face, cubieData.q, cubieData.x, cubieData.y,
                                    cubieData.z, cubeSize)
             THEN (IF hoveredId = id THEN << NoId, NoFace >> ELSE << hoveredId, hoveredFace >>)
             ELSE << id, face >>

handlePointerMove(id, localPoint) ==
  /\ ~(isAnimating \/ Len(moveQueue) > 0 \/ activeHint # None)
  /\ hoveredId' = hoverOutcome(id, localPoint)[1]
  /\ hoveredFace' = hoverOutcome(id, localPoint)[2]
  /\ << hoveredId', hoveredFace' >> # << hoveredId, hoveredFace >>
  /\ UNCHANGED selection
  /\ UNCHANGED cubeVars
  /\ UNCHANGED appVars
  /\ render

\* handlePointerOut of a piece and onPointerLeave of the cube
handlePointerOut ==
  /\ hoveredId # NoId
  /\ hoveredId' = NoId
  /\ hoveredFace' = NoFace
  /\ UNCHANGED selection
  /\ UNCHANGED cubeVars
  /\ UNCHANGED appVars
  /\ render

\* fault: the arrow press leaves the Selection open
handleArrowClickKeep(dir, cameraPos) ==
  /\ selection # None
  /\ arrowVisible(dir, activeHint, selection)
  /\ LET a == handleDirectMove(AppState, arrowMove(selection, dir, cameraPos, cubeSize))
     IN  /\ Len(a.history) <= MaxHistory
         /\ a # AppState
         /\ SetApp(a)
  /\ selection' = selection
  /\ UNCHANGED cubeVars
  /\ UNCHANGED hoverVars
  /\ render
handleArrowClick(dir, cameraPos) ==
  /\ selection # None
  /\ arrowVisible(dir, activeHint, selection)
  /\ LET a == handleDirectMove(AppState, arrowMove(selection, dir, cameraPos, cubeSize))
     IN  /\ Len(a.history) <= MaxHistory
         /\ SetApp(a)
  /\ selection' = None
  /\ UNCHANGED cubeVars
  /\ UNCHANGED hoverVars
  /\ render

onPointerMissed ==
  /\ selection # None /\ activeHint = None
  /\ selection' = None
  /\ UNCHANGED cubeVars
  /\ UNCHANGED appVars
  /\ UNCHANGED hoverVars
  /\ render

\* the close button of the arrow overlay, shown unless a hint is displayed
closeSelection ==
  /\ selection # None /\ ~(activeHint # None /\ selection # None)
  /\ selection' = None
  /\ UNCHANGED cubeVars
  /\ UNCHANGED appVars
  /\ UNCHANGED hoverVars
  /\ render

Next ==
  \/ \E delta \in Deltas, speed \in Speeds : useFrameAdvance(delta, speed)
  \/ \E delta \in Deltas, speed \in Speeds, drift \in Drifts : useFrameCommit(delta, speed, drift)
  \/ useFrameStart
  \/ Shuffle
  \/ Solve
  \/ Hint
  \/ Escape
  \/ SizeChange
  \/ \E cubieId \in ClickIds(cubies), localPoint \in HitPoints : handleClick(cubieId, localPoint)
  \/ \E dir \in Directions, cameraPos \in Cameras : handleArrowClick(dir, cameraPos)
  \/ onPointerMissed
  \/ closeSelection

Spec == Init /\ [][Next]_vars

\* the frame callback of useFrame, whatever branch it takes
useFrame ==
  \/ \E delta \in Deltas, speed \in Speeds : useFrameAdvance(delta, speed)
  \/ \E delta \in Deltas, speed \in Speeds, drift \in Drifts : useFrameCommit(delta, speed, drift)
  \/ useFrameStart

\* the engine driven by programmatic input only: shuffle, solve, resize
NextEngine ==
  \/ \E delta \in Deltas, speed \in Speeds : useFrameAdvance(delta, speed)
  \/ \E delta \in Deltas, speed \in Speeds, drift \in Drifts : useFrameCommit(delta, speed, drift)
  \/ useFrameStart
  \/ Shuffle
  \/ Solve
  \/ SizeChange

EngineSpec == Init /\ [][NextEngine]_vars

\* the app as it starts, at the default size
InitDefault ==
  /\ cubeSize = DEFAULT_CUBE_SIZE
  /\ cubies = initialPositions(cubeSize)
  /\ attached = {}
  /\ pivot = NoRotation
  /\ isAnimating = FALSE
  /\ animationProgress = 0
  /\ currentMove = None
  /\ selection = None
  /\ moveQueue = <<>>
  /\ history = <<>>
  /\ isShaking = FALSE
  /\ activeHint = None
  /\ hoveredId = NoId
  /\ hoveredFace = NoFace
  /\ renderedIsAnimating = FALSE
  /\ renderedMoveQueue = <<>>

\* every size of the slider, the cube at most one shuffle away from solved
NextAllSizes ==
  \/ \E delta \in Deltas, speed \in Speeds : useFrameAdvance(delta, speed)
  \/ \E delta \in Deltas, speed \in Speeds, drift \in Drifts : useFrameCommit(delta, speed, drift)
  \/ useFrameStart
  \/ ShuffleSolved
  \/ Solve
  \/ SizeSlider

AllSizesSpec == InitDefault /\ [][NextAllSizes]_vars

\* the cube driven by the pointer alone: hover, click, arrows, dismissal
NextPicker ==
  \/ \E delta \in Deltas, speed \in Speeds : useFrameAdvance(delta, speed)
  \/ \E delta \in Deltas, speed \in Speeds, drift \in Drifts : useFrameCommit(delta, speed, drift)
  \/ useFrameStart
  \/ \E cubieId \in PickIds(cubies), localPoint \in PickPoints : handleClick(cubieId, localPoint)
  \/ \E id \in PickIds(cubies), localPoint \in PickPoints : handlePointerMove(id, localPoint)
  \/ handlePointerOut
  \/ \E dir \in Directions, cameraPos \in PickCameras : handleArrowClick(dir, cameraPos)
  \/ onPointerMissed
  \/ closeSelection

PickerSpec == Init /\ [][NextPicker]_vars

\* the moveQueue prop as the component's type admits it: layer is a number,
\* here also one past the last layer
PropMoves(size) == [axis : Axes, layer : 0..size, direction : {1, -1}]
\* a parent that follows the callback protocol (onMoveComplete) and records
\* what it queues, as App does for a shuffle, but hands over any such moves
EnqueueProp ==
  /\ ~isAnimating /\ Len(moveQueue) = 0
  /\ \E k \in 1..(MaxHistory - Len(history)) : \E q \in [1..k -> PropMoves(cubeSize)] :
       /\ moveQueue' = q
       /\ history' = history \o q
  /\ isShaking' = TRUE
  /\ UNCHANGED <<activeHint, cubeSize, selection>>
  /\ UNCHANGED cubeVars
  /\ UNCHANGED hoverVars
  /\ render

\* the cube component under such a parent
NextComponent ==
  \/ \E delta \in Deltas, speed \in Speeds : useFrameAdvance(delta, speed)
  \/ \E delta \in Deltas, speed \in Speeds, drift \in Drifts : useFrameCommit(delta, speed, drift)
  \/ useFrameStart
  \/ EnqueueProp

ComponentSpec == Init /\ [][NextComponent]_vars

\* The frame callback when the render that follows a state update has not
\* run yet: isAnimating and moveQueue are the values the last render closed
\* over, the refs (currentMove, animationProgress, the pieces, the pivot) are
\* live, and the state setters and the move-complete callback act on the
\* current state.
laggedFrameAdvance(delta, speed) ==
  /\ renderedIsAnimating /\ currentMove # None
  /\ LET progress == animationProgress + delta * animSpeed(speed)
     IN  /\ progress < HalfPi
         /\ animationProgress' = progress
         /\ pivot' = setRotationFromAxisAngle(currentMove.axis, currentRot(progress, currentMove))
  /\ UNCHANGED <<cubies, attached, isAnimating, currentMove, selection>>
  /\ UNCHANGED appVars
  /\ UNCHANGED hoverVars
  /\ UNCHANGED renderVars
laggedFrameCommit(delta, speed, drift) ==
  /\ renderedIsAnimating /\ currentMove # None
  /\ LET progress == animationProgress + delta * animSpeed(speed)
     IN  /\ progress >= HalfPi
         /\ animationProgress' = progress
         /\ finishMove(setRotationFromAxisAngle(currentMove.axis,
                                                currentRot(progress, currentMove)), drift)
  /\ UNCHANGED renderVars
laggedFrameStart ==
  /\ ~renderedIsAnimating /\ Len(renderedMoveQueue) > 0
  /\ startMove(renderedMoveQueue[1])
  /\ UNCHANGED renderVars
\* the pending render: the component runs again with the current state
Rerender ==
  /\ renderVars # <<isAnimating, moveQueue>>
  /\ renderedIsAnimating' = isAnimating
  /\ renderedMoveQueue' = moveQueue
  /\ UNCHANGED <<selection, cubies, attached, pivot, isAnimating, animationProgress,
                 currentMove>>
  /\ UNCHANGED appVars
  /\ UNCHANGED hoverVars
\* the parent of ComponentSpec; the new queue reaches the component with the
\* next render
EnqueuePropLagged ==
  /\ Len(moveQueue) = 0
  /\ \E k \in 1..(MaxHistory - Len(history)) : \E q \in [1..k -> PropMoves(cubeSize)] :
       /\ moveQueue' = q
       /\ history' = history \o q
  /\ isShaking' = TRUE
  /\ UNCHANGED <<activeHint, cubeSize, selection>>
  /\ UNCHANGED cubeVars
  /\ UNCHANGED hoverVars
  /\ UNCHANGED renderVars

\* the cube component when renders may lag behind the frame ticks
NextLag ==
  \/ \E delta \in Deltas, speed \in Speeds : laggedFrameAdvance(delta, speed)
  \/ \E delta \in Deltas, speed \in Speeds, drift \in Drifts :
       laggedFrameCommit(delta, speed, drift)
  \/ laggedFrameStart
  \/ Rerender
  \/ EnqueuePropLagged

LagSpec == Init /\ [][NextLag]_vars

\* what a tick does to the animator's bookkeeping, branch by branch: the
\* animating branch adds delta * animSpeed to the progress and, at a quarter
\* turn, ends the animation and reports the move complete; the idle branch
\* resets the progress and starts the head of the queue, or reports it
\* complete when its slice is empty.  A step of Next satisfies frameTick iff
\* it is a useFrame step, and frameTick is enabled exactly where useFrame is.
tickVars == <<isAnimating, animationProgress, moveQueue>>
frameTick ==
  \/ /\ isAnimating /\ currentMove # None
     /\ \E delta \in Deltas, speed \in Speeds :
          LET progress == animationProgress + delta * animSpeed(speed)
          IN  /\ animationProgress' = progress
              /\ isAnimating' = (progress < HalfPi)
              /\ moveQueue' = IF progress >= HalfPi
                                THEN onMoveComplete(AppState).moveQueue ELSE moveQueue
  \/ /\ ~isAnimating /\ Len(moveQueue) > 0
     /\ animationProgress' = 0
     /\ LET empty == Slice(cubies, moveQueue[1], cubeSize) = {}
        IN  /\ isAnimating' = ~empty
            /\ moveQueue' = IF empty THEN onMoveComplete(AppState).moveQueue ELSE moveQueue

\* the render loop calls the frame callback for as long as the canvas lives,
\* each time with a positive delta
FairSpec == Spec /\ WF_tickVars(frameTick)
FairEngineSpec == EngineSpec /\ WF_tickVars(frameTick)
FairComponentSpec == ComponentSpec /\ WF_tickVars(frameTick)

(* ------------------------------- properties ---------------------------- *)
Idle == ~isAnimating /\ Len(moveQueue) = 0
AtHome(c) == c.x = c.initialX /\ c.y = c.initialY /\ c.z = c.initialZ /\ c.q = Identity
Solved == \A n \in 1..Len(cubies) : AtHome(cubies[n])
\* the 24 axis-aligned rotations of the cube
CubeRotations ==
  {m \in [1..3 -> [1..3 -> {-1, 0, 1}]] :
     /\ \A i \in 1..3 : Cardinality({j \in 1..3 : m[i][j] # 0}) = 1
     /\ \A j \in 1..3 : Cardinality({i \in 1..3 : m[i][j] # 0}) = 1
     /\ m[1][1] * (m[2][2] * m[3][3] - m[2][3] * m[3][2])
        - m[1][2] * (m[2][1] * m[3][3] - m[2][3] * m[3][1])
        + m[1][3] * (m[2][1] * m[3][2] - m[2][2] * m[3][1]) = 1}
Lattice(size) == {k * Unit - Offset(size) : k \in 0..(size - 1)}
\* the image of a vector under a turn of d * 90 degrees about a basis axis
\* (right-hand rule), written out per axis
QuarterTurn(axis, d, v) ==
  IF axis = "x" THEN << v[1], -d * v[3], d * v[2] >>
  ELSE IF axis = "y" THEN << d * v[3], v[2], -d * v[1] >>
  ELSE << -d * v[2], d * v[1], v[3] >>
\* a cubie carried rigidly through that turn
Turned(c, move) ==
  LET pos == QuarterTurn(move.axis, move.direction, << c.x, c.y, c.z >>)
  IN  [c EXCEPT !.x = pos[1], !.y = pos[2], !.z = pos[3],
                !.q = [i \in 1..3 |-> [j \in 1..3 |->
                         QuarterTurn(move.axis, move.direction,
                                     << c.q[1][j], c.q[2][j], c.q[3][j] >>)[i]]]]
\* the step that commits the turn in flight
CommitStep == isAnimating /\ ~isAnimating'
InverseReversed(h) ==
  [i \in 1..Len(h) |-> [axis |-> h[Len(h) + 1 - i].axis, layer |-> h[Len(h) + 1 - i].layer,
                        direction |-> 0 - h[Len(h) + 1 - i].direction]]

\* C1: a solve batch (isShaking with History emptied) that runs to completion
\* leaves every piece at its initial coordinate with the identity orientation;
\* the step that ends the batch lands in the solved state.
SolveRestoresCube ==
  [][(isShaking /\ Len(history) = 0 /\ ~isShaking') => Solved']_vars
\* the last turn of a solve batch is in flight on a cube that is not solved
SolveLastTurnInFlight ==
  /\ isShaking /\ Len(history) = 0 /\ Len(moveQueue) = 1
  /\ isAnimating /\ animationProgress > 0 /\ ~Solved

\* C2: committing a move and then the same move with negated direction
\* restores every piece's coordinate and orientation: after every commit,
\* a whole turn of the negated move from the state just reached gives back
\* the state the commit started from, whatever the drift of either commit.
MoveInverseLaw ==
  [][CommitStep =>
       \A d \in Drifts :
         TurnResult(cubies', Negate(currentMove), d, cubeSize) = cubies]_vars
\* a move and its inverse have been committed one after the other
InverseCommitted ==
  /\ Idle /\ Len(history) = 2 /\ history[2] = Negate(history[1])
  /\ animationProgress >= HalfPi /\ Solved

\* C3: a commit rotates exactly the pieces whose coordinate along the move's
\* axis is layer - offset: each of them has its coordinate and orientation
\* turned by direction * 90 degrees about the axis, every other piece keeps
\* both.
CommitRotatesExactlySlice ==
  [][CommitStep =>
       /\ Len(cubies') = Len(cubies)
       /\ \A n \in 1..Len(cubies) :
            cubies'[n] = IF Coord(cubies[n], currentMove.axis)
                              = currentMove.layer * Unit - Offset(cubeSize)
                           THEN Turned(cubies[n], currentMove)
                           ELSE cubies[n]]_vars
\* one turn has been committed: some pieces moved, the others did not
OneSliceTurned ==
  /\ Idle /\ Len(history) = 1 /\ animationProgress >= HalfPi
  /\ \E n \in 1..Len(cubies) : ~AtHome(cubies[n])
  /\ \E n \in 1..Len(cubies) : AtHome(cubies[n])

\* C4: in every state each piece's committed coordinate is a point of the
\* lattice of the cube size (half-integers for even sizes) and its committed
\* orientation is one of the 24 axis-aligned rotations.
QuarterTurnExactness ==
  \A n \in 1..Len(cubies) :
    /\ cubies[n].x \in Lattice(cubeSize)
    /\ cubies[n].y \in Lattice(cubeSize)
    /\ cubies[n].z \in Lattice(cubeSize)
    /\ cubies[n].q \in CubeRotations
\* two turns about different axes have been committed on an even cube
TwistedEvenCube ==
  /\ cubeSize = 2 /\ Idle /\ Len(history) = 2
  /\ history[1].axis # history[2].axis
  /\ \E n \in 1..Len(cubies) : cubies[n].q # Identity /\ cubies[n].x # cubies[n].initialX

\* C5: a turn starts only when none is animating and it is the head of the
\* queue; the turn in flight is never replaced; the turn committed is the head
\* of the queue at that moment.
StrictFifo ==
  [][/\ (isAnimating' /\ ~isAnimating) =>
          (currentMove' = Head(moveQueue) /\ moveQueue' = moveQueue)
     /\ (isAnimating /\ isAnimating') =>
          (currentMove' = currentMove /\ moveQueue' = moveQueue)
     /\ CommitStep => currentMove = Head(moveQueue)]_vars
\* the first move of a batch of two different moves is in flight while the
\* second waits
HeadInFlightSecondWaits ==
  /\ isAnimating /\ Len(moveQueue) = 2 /\ moveQueue[1] # moveQueue[2]
  /\ currentMove = moveQueue[1] /\ animationProgress > 0

\* C6: the queue shrinks only by the move-complete callback of a commit,
\* which removes exactly the committed move from the front; every commit
\* produces exactly that one removal, and the cube changes only in a commit.
ConsumedExactlyOnce ==
  [][/\ Len(moveQueue') < Len(moveQueue) =>
          (CommitStep /\ currentMove = Head(moveQueue) /\ moveQueue' = Tail(moveQueue))
     /\ CommitStep => (moveQueue' = Tail(moveQueue) /\ currentMove' = None)
     /\ (cubies' # cubies /\ cubeSize' = cubeSize) => CommitStep]_vars
\* the same move was queued twice and the queue has drained: the cube shows a
\* half turn, each of the two having been committed once
SameMoveTwiceConsumed ==
  /\ Idle /\ Len(history) = 2 /\ history[1] = history[2]
  /\ \E n \in 1..Len(cubies) :
       cubies[n].q # Identity /\ MatMul(cubies[n].q, cubies[n].q) = Identity

\* C7: while a turn is animating or the queue is non-empty, a shuffle, a
\* solve and a manual move are declined: each leaves the queue and History
\* as they are.
InputDeclinedWhileBusy ==
  (isAnimating \/ Len(moveQueue) > 0) =>
    /\ \A newMoves \in [1..shuffleCount(cubeSize) -> Moves(cubeSize)] :
         LET a == handleShuffle(AppState, newMoves)
         IN  a.moveQueue = moveQueue /\ a.history = history
    /\ LET a == handleSolve(AppState)
       IN  a.moveQueue = moveQueue /\ a.history = history
    /\ \A m \in Moves(cubeSize) :
         LET a == handleDirectMove(AppState, m)
         IN  a.moveQueue = moveQueue /\ a.history = history
\* a manual move is in flight (busy, not shaking)
ManualTurnInFlight ==
  isAnimating /\ ~isShaking /\ Len(moveQueue) = 1 /\ Len(history) > 0

\* C8: a commit whose tick overshoots the quarter turn still applies exactly
\* direction * 90 degrees to the attached pieces, never the accumulated
\* progress, and resets the pivot.
CommitIsExactQuarterTurn ==
  [][(CommitStep /\ animationProgress' > HalfPi) =>
       /\ pivot' = NoRotation
       /\ \A n \in 1..Len(cubies) :
            cubies[n].id \in attached => cubies'[n] = Turned(cubies[n], currentMove)]_vars
\* a turn was committed by a tick that overshot the quarter turn
OvershootCommitted ==
  ~isAnimating /\ animationProgress > HalfPi /\ ~Solved /\ pivot = NoRotation

\* C9: with frame ticks that keep arriving, every turn that starts commits and
\* every non-empty queue drains to the idle state with isShaking false.
QueueDrains ==
  /\ isAnimating ~> ~isAnimating
  /\ (Len(moveQueue) > 0) ~> (Idle /\ ~isShaking)
\* a shuffle batch has drained
BatchDrained ==
  Idle /\ ~isShaking /\ Len(history) > 0 /\ animationProgress >= HalfPi /\ ~Solved

\* C10: with an empty queue and a non-empty History, solve replaces the queue
\* by the History reversed with every direction negated and empties History;
\* with an empty History solve changes nothing.
SolveSchedulesInverse ==
  /\ [](Len(history) = 0 => handleSolve(AppState) = AppState)
  /\ []((Len(moveQueue) = 0 /\ Len(history) > 0) =>
          LET a == handleSolve(AppState)
          IN  a.moveQueue = InverseReversed(history) /\ a.history = <<>>)
  /\ [][(isShaking' /\ Len(history') = 0 /\ Len(history) > 0) =>
          (Len(moveQueue) = 0 /\ moveQueue' = InverseReversed(history))]_vars
\* solve has just replaced a History of two moves
SolveScheduled ==
  /\ isShaking /\ Len(history) = 0 /\ Len(moveQueue) = 2 /\ ~isAnimating
  /\ animationProgress >= HalfPi /\ ~Solved
  /\ moveQueue[1] # moveQueue[2]

HintUndo ==
  /\ [](activeHint # None =>
          /\ ~isShaking /\ Len(moveQueue) = 0 /\ Len(history) > 0
          /\ activeHint = InverseReversed(history)[1]
          /\ \A m \in Moves(cubeSize) :
               LET a == handleDirectMove(AppState, m)
               IN  /\ a.activeHint = None /\ a.moveQueue = <<m>>
                   /\ a.history = IF m = activeHint
                                    THEN SubSeq(history, 1, Len(history) - 1)
                                    ELSE Append(history, m))
  /\ [][(activeHint # None /\ ~isShaking' /\ Len(moveQueue') = 1) =>
          /\ activeHint' = None
          /\ IF moveQueue'[1] = activeHint
               THEN history' = SubSeq(history, 1, Len(history) - 1)
               ELSE history' = Append(history, moveQueue'[1])]_vars
\* the undo of the only recorded move has been executed at manual speed
HintUndoExecuted ==
  /\ Idle /\ Len(history) = 0 /\ Solved
  /\ animationProgress >= HalfPi /\ animationProgress < HalfPi + 10 * DefaultAnimSpeed

SurfacePoints(size) ==
  {p \in Lattice(size) \X Lattice(size) \X Lattice(size) :
     \E i \in 1..3 : Abs(p[i]) = Offset(size)}

\* C14: for every size of the slider the piece set is exactly the lattice
\* points with a coordinate of absolute value (N-1)/2, N^3 - (N-2)^3 pieces
\* with ids 0..count-1 in order, and a freshly generated set has every piece
\* at its initial coordinate with the identity orientation.
LatticeModelGenerated ==
  /\ cubeSize \in SliderSizes
  /\ Len(cubies) = cubeSize * cubeSize * cubeSize
                     - (cubeSize - 2) * (cubeSize - 2) * (cubeSize - 2)
  /\ \A n \in 1..Len(cubies) : cubies[n].id = n - 1
  /\ {<< cubies[n].initialX, cubies[n].initialY, cubies[n].initialZ >> : n \in 1..Len(cubies)}
       = SurfacePoints(cubeSize)
  /\ (Idle /\ Len(history) = 0 /\ animationProgress = 0) => Solved
\* the smallest cube has just been generated by the slider: 8 pieces
SmallestCubeGenerated ==
  /\ cubeSize = MinCubeSize /\ Len(cubies) = 8
  /\ Idle /\ Len(history) = 0 /\ animationProgress = 0 /\ Solved

Ids == {cubies[n].id : n \in 1..Len(cubies)}
\* the ids of the pieces startMove leaves on the scene for this move
Remainder(move) ==
  {cubies[n].id : n \in {i \in 1..Len(cubies) : ~inSlice(cubies[i], move, cubeSize)}}
LayerMove(axis, layer) == [axis |-> axis, layer |-> layer, direction |-> 1]

\* C15: in every rest state, for every axis and every layer in 0..N-1, the
\* selected slice and the remaining pieces are disjoint and together are the
\* whole piece set; the slice has N^2 pieces for layer 0 or N-1 and
\* N^2 - (N-2)^2 pieces for an inner layer.
SlicePartitionAndSize ==
  ~isAnimating =>
    \A axis \in Axes, layer \in 0..(cubeSize - 1) :
      LET slice == Slice(cubies, LayerMove(axis, layer), cubeSize)
          rest == Remainder(LayerMove(axis, layer))
      IN  /\ slice \cap rest = {}
          /\ slice \cup rest = Ids
          /\ Cardinality(Ids) = Len(cubies)
          /\ Cardinality(slice) =
               IF layer \in {0, cubeSize - 1}
                 THEN cubeSize * cubeSize
                 ELSE cubeSize * cubeSize - (cubeSize - 2) * (cubeSize - 2)
\* a 3-cube at rest after two committed turns, not solved
TwoTurnsCommittedAtRest ==
  /\ cubeSize = 3 /\ Idle /\ Len(history) = 2 /\ ~Solved

TopMove == [axis |-> "y", layer |-> cubeSize - 1, direction |-> 1]
TopPieces == {cubies[n].id : n \in {i \in 1..Len(cubies) : cubies[i].y = Offset(cubeSize)}}

\* C16 as stated: the top-layer move selects exactly the pieces whose current
\* y coordinate is (N-1)/2, and for N = 10 these are 36 pieces.
TopLayerOfTenHas36 ==
  ~isAnimating =>
    /\ Slice(cubies, TopMove, cubeSize) = TopPieces
    /\ cubeSize = 10 => Cardinality(Slice(cubies, TopMove, cubeSize)) = 36
\* C16: the move {axis y, layer N-1, direction 1} selects exactly the pieces
\* whose current y coordinate is (N-1)/2: N^2 pieces, 100 for N = 10; the
\* step that starts the move attaches exactly these to the pivot.
TopLayerIsFullFace ==
  /\ [](~isAnimating =>
          /\ Slice(cubies, TopMove, cubeSize) = TopPieces
          /\ Cardinality(TopPieces) = cubeSize * cubeSize
          /\ cubeSize = 10 => Cardinality(Slice(cubies, TopMove, cubeSize)) = 100)
  /\ [][(~isAnimating /\ isAnimating' /\ currentMove' = TopMove) =>
          (attached' = TopPieces /\ Cardinality(attached') = cubeSize * cubeSize)]_vars
\* the top layer of the 10-cube is turning by the move of the claim
TopLayerOfTenTurning ==
  /\ cubeSize = 10 /\ isAnimating /\ currentMove = TopMove
  /\ Cardinality(attached) = 100

\* C17: in every rest state, for each axis every piece is in the slice of
\* exactly one layer index of 0..N-1, namely coordinate + (N-1)/2.
ToleranceNeverStraddles ==
  ~isAnimating =>
    \A axis \in Axes, n \in 1..Len(cubies) :
      /\ (Coord(cubies[n], axis) + Offset(cubeSize)) % Unit = 0
      /\ {layer \in 0..(cubeSize - 1) : inSlice(cubies[n], LayerMove(axis, layer), cubeSize)}
           = {(Coord(cubies[n], axis) + Offset(cubeSize)) \div Unit}
\* a 3-cube at rest with a piece away from its initial layer
PieceChangedLayerAtRest ==
  /\ cubeSize = 3 /\ ~isAnimating
  /\ \E n \in 1..Len(cubies) : cubies[n].x # cubies[n].initialX

\* a piece with its current coordinate and orientation blanked out
Permanent(c) == [c EXCEPT !.x = 0, !.y = 0, !.z = 0, !.q = Identity]

\* C18: no shuffle, solve, manual or hint move changes a piece's id or
\* initial coordinate, so every piece has in every state the active sticker
\* faces it was generated with; a step changes only current coordinates and
\* orientations.
ColorPermanence ==
  /\ [](LET fresh == initialPositions(cubeSize)
        IN  /\ Len(cubies) = Len(fresh)
            /\ \A n \in 1..Len(cubies) :
                 /\ Permanent(cubies[n]) = Permanent(fresh[n])
                 /\ isActive(cubies[n], cubeSize) = isActive(fresh[n], cubeSize)
                 /\ isActive(cubies[n], cubeSize) # {})
  /\ [][cubeSize' = cubeSize =>
          \A n \in 1..Len(cubies) :
            /\ cubies'[n].id = cubies[n].id
            /\ isActive(cubies'[n], cubeSize') = isActive(cubies[n], cubeSize)]_vars
\* a piece with an R sticker has been carried off the R face by a manual move
StickerCarriedByManualMove ==
  /\ ~isAnimating /\ ~isShaking /\ Len(history) > 0
  /\ animationProgress >= HalfPi /\ animationProgress < HalfPi + 10 * DefaultAnimSpeed
  /\ \E n \in 1..Len(cubies) :
       "R" \in isActive(cubies[n], cubeSize) /\ cubies[n].x # Offset(cubeSize)

\* C19: every move in the queue, whether put there by handleShuffle,
\* handleSolve or handleArrowClick, is well-formed for the current cube size:
\* axis x, y or z, layer an integer in 0..N-1, direction +1 or -1; a step only
\* ever adds such moves.
QueuedMovesWellFormed ==
  /\ [](\A i \in 1..Len(moveQueue) :
          /\ moveQueue[i].axis \in Axes
          /\ moveQueue[i].layer \in 0..(cubeSize - 1)
          /\ moveQueue[i].direction \in {1, -1})
  /\ [][Len(moveQueue') > Len(moveQueue) =>
          \A i \in 1..Len(moveQueue') : moveQueue'[i] \in Moves(cubeSize')]_vars
\* an arrow press on a piece of the last layer has just queued its move
ArrowMoveOnLastLayerQueued ==
  /\ ~isShaking /\ ~isAnimating /\ Len(moveQueue) = 1
  /\ moveQueue[1].layer = cubeSize - 1 /\ moveQueue[1].direction = -1
  /\ history # <<>> /\ history[Len(history)] = moveQueue[1]

\* the app and the cube after a hard reset to newSize, as a state test on the
\* primed variables
HardReset(newSize) ==
  /\ cubeSize' = newSize
  /\ moveQueue' = <<>> /\ history' = <<>>
  /\ selection' = None /\ activeHint' = None
  /\ cubies' = initialPositions(newSize)
  /\ attached' = {} /\ ~isAnimating'

\* C20: a cube size change requested while a Selection or an in-flight turn
\* exists is a hard reset: the handler's outcome has the new size, an empty
\* queue, an empty History and no hint (the remount that follows a changed
\* size discards the Selection and regenerates the pieces).
ResizeRequestIsHardReset ==
  (selection # None \/ isAnimating) =>
    \A newSize \in Sizes \ {cubeSize} :
      LET a == handleSizeChange(AppState, newSize)
      IN  /\ a.cubeSize = newSize
          /\ a.moveQueue = <<>>
          /\ a.history = <<>>
          /\ a.activeHint = None
\* the slider is moved while a turn is in flight: the handler returns the
\* app as it is, turn, queue and History included
ResizeRequestedInFlight ==
  /\ isAnimating /\ Len(moveQueue) > 0 /\ Len(history) > 0
  /\ \E newSize \in Sizes \ {cubeSize} : handleSizeChange(AppState, newSize) = AppState
\* C20, the part the code keeps: a size change that takes effect, with or
\* without a Selection, is a hard reset, and it takes effect exactly when the
\* app is not busy.
ResizeAtRestIsHardReset ==
  /\ [][cubeSize' # cubeSize => (~isBusy(AppState) /\ HardReset(cubeSize'))]_vars
  /\ [](~isBusy(AppState) =>
          \A newSize \in Sizes \ {cubeSize} :
            handleSizeChange(AppState, newSize).cubeSize = newSize)

\* the click handler's early return: a turn animating, moves queued or a hint shown
ClickLocked == isAnimating \/ Len(moveQueue) > 0 \/ activeHint # None
\* the outward-facing check on the face a click at localPoint picks
PickValid(cubieId, localPoint) ==
  LET cubieData == CubieById(cubies, cubieId)
  IN  checkFaceOrientation(clickFace(localPoint).face, cubieData.q, cubieData.x,
                           cubieData.y, cubieData.z, cubeSize)

\* C21: a click whose picked face fails the outward-facing check leaves no
\* Selection, whether or not one existed; a click made while a turn is
\* animating, the queue is non-empty or a hint is active leaves the Selection
\* as it was.
InvalidPickClearsSelection ==
  \A cubieId \in PickIds(cubies), localPoint \in PickPoints :
    IF ClickLocked
      THEN clickOutcome(cubieId, localPoint) = selection
      ELSE IF PickValid(cubieId, localPoint)
        THEN /\ clickOutcome(cubieId, localPoint) # None
             /\ clickOutcome(cubieId, localPoint).id = cubieId
        ELSE clickOutcome(cubieId, localPoint) = None
\* a Selection exists and the next click on the piece picks an inward face
InvalidPickOnSelection ==
  /\ selection # None /\ ~ClickLocked /\ Len(history) > 0
  /\ \E cubieId \in ClickIds(cubies), localPoint \in HitPoints :
       ~PickValid(cubieId, localPoint) /\ clickOutcome(cubieId, localPoint) = None

CubiePos(id) == << CubieById(cubies, id).x, CubieById(cubies, id).y, CubieById(cubies, id).z >>

\* C22: after every committed turn, a Selection that exists caches the
\* selected piece's post-commit coordinate; so at rest the cached coordinate
\* is always the piece's current one.
StaleSelectionRecovered ==
  /\ [][(CommitStep /\ selection' # None) =>
          selection'.cubiePos = << CubieById(cubies', selection'.id).x,
                                   CubieById(cubies', selection'.id).y,
                                   CubieById(cubies', selection'.id).z >>]_vars
  /\ []((~isAnimating /\ selection # None) => selection.cubiePos = CubiePos(selection.id))
\* a Selection made before a turn that carried its piece away: its normal is
\* the one picked before the turn, its coordinate the one after
SelectionCarriedThroughCommit ==
  /\ selection # None /\ ~isAnimating
  /\ selection.normal # MatVec(CubieById(cubies, selection.id).q, localNormalOf(selection.face))
  /\ selection.cubiePos = CubiePos(selection.id)
  /\ ~AtHome(CubieById(cubies, selection.id))

FaceAxis(face) == IF face \in {"R", "L"} THEN 1 ELSE IF face \in {"U", "D"} THEN 2 ELSE 3
PositiveFaces == {"R", "U", "F"}
MaxMagnitude(p) == Max2(Abs(p[1]), Max2(Abs(p[2]), Abs(p[3])))
\* face is on an axis that carries the largest magnitude of p, on the side of
\* that component's sign
OnLargestAxis(face, p) ==
  /\ Abs(p[FaceAxis(face)]) = MaxMagnitude(p)
  /\ p[FaceAxis(face)] > 0 => face \in PositiveFaces
  /\ p[FaceAxis(face)] < 0 => face \notin PositiveFaces

\* C23: for every local hit point, ties and zero coordinates included, the
\* picked face is on the local axis that carries the largest-magnitude
\* component, on the side given by that component's sign, and hover and click
\* pick the same face.
FacePickIsLargestMagnitude ==
  \A id \in PickIds(cubies), p \in PickPoints :
    (~ClickLocked /\ PickValid(id, p)) =>
      /\ OnLargestAxis(clickOutcome(id, p).face, p)
      /\ hoverOutcome(id, p) = << id, clickOutcome(id, p).face >>
\* C23, the part the code keeps: hover and click pick the same face for every
\* point, and the face is the one of the claim whenever x or y strictly
\* dominates or z is among the largest.
FacePickOffTies ==
  \A id \in PickIds(cubies), p \in PickPoints :
    (~ClickLocked /\ PickValid(id, p)) =>
      /\ hoverOutcome(id, p) = << id, clickOutcome(id, p).face >>
      /\ (Abs(p[3]) = MaxMagnitude(p) \/ Abs(p[1]) # Abs(p[2])) =>
           OnLargestAxis(clickOutcome(id, p).face, p)
\* a click on an edge point with z = 0 was resolved to the back face: the
\* Selection carries the zero vector as its normal
TiePickSelectedBackFace ==
  /\ selection # None /\ selection.face = "B"
  /\ selection.normal = <<0, 0, 0>>

\* the local face of the piece is an exterior face of the assembled cube: its
\* normal, rotated by the piece's orientation, points along a world axis on
\* which the piece sits at the lattice limit of the same sign
ExteriorFace(c, face) ==
  LET w == MatVec(c.q, localNormalOf(face))
      pos == << c.x, c.y, c.z >>
  IN  \E i \in 1..3 : w[i] # 0 /\ pos[i] = w[i] * Offset(cubeSize)

\* C24: at rest a picked local face passes the check exactly when it is an
\* exterior face of the cube in the piece's current orientation; the hit
\* point (0.5, 0.1, 0.05) on a piece at the +x boundary with the identity
\* orientation resolves to R and is accepted.
FacePickerValidation ==
  ~isAnimating =>
    /\ \A n \in 1..Len(cubies), face \in Faces :
         checkFaceOrientation(face, cubies[n].q, cubies[n].x, cubies[n].y, cubies[n].z,
                              cubeSize)
           <=> ExteriorFace(cubies[n], face)
    /\ \A n \in 1..Len(cubies) :
         (cubies[n].x = Offset(cubeSize) /\ cubies[n].q = Identity /\ ~ClickLocked) =>
           /\ clickFace(<<500, 100, 50>>).face = "R"
           /\ clickOutcome(cubies[n].id, <<500, 100, 50>>) # None
           /\ clickOutcome(cubies[n].id, <<500, 100, 50>>).face = "R"
\* a click picked a face of a piece that a turn has rotated, and was accepted
RotatedFaceAccepted ==
  /\ selection # None /\ activeHint = None /\ ~isAnimating /\ Len(moveQueue) = 0
  /\ CubieById(cubies, selection.id).q # Identity
  /\ selection.normal = MatVec(CubieById(cubies, selection.id).q, localNormalOf(selection.face))
  /\ ExteriorFace(CubieById(cubies, selection.id), selection.face)

\* C25: for a Selection and a swipe, the move's axis is a cardinal axis with
\* the largest-magnitude component of worldNormal x swipe, its direction is
\* the sign of that component (+1 when it is zero), its layer is the selected
\* piece's coordinate on that axis plus (N-1)/2; so the layer is in 0..N-1
\* and the slice of the move contains the selected piece, also for the move
\* an arrow press actually queues.
GestureToMove ==
  /\ [](selection # None =>
          \A dir \in Directions, cameraPos \in PickCameras :
            LET m == arrowMove(selection, dir, cameraPos, cubeSize)
                v == Cross(selection.normal, moveVec(dir, cameraPos))
                c == v[AxisIndex(m.axis)]
            IN  /\ m.axis \in Axes
                /\ Abs(c) = MaxMagnitude(v)
                /\ m.direction = (IF c < 0 THEN 0 - 1 ELSE 1)
                /\ m.layer * Unit = selection.cubiePos[AxisIndex(m.axis)] + Offset(cubeSize)
                /\ m.layer \in 0..(cubeSize - 1)
                /\ selection.id \in Slice(cubies, m, cubeSize))
  /\ [][Len(moveQueue') > Len(moveQueue) =>
          /\ selection # None /\ selection' = None
          /\ \E dir \in Directions, cameraPos \in PickCameras :
               moveQueue' = << arrowMove(selection, dir, cameraPos, cubeSize) >>
          /\ selection.id \in Slice(cubies, moveQueue'[1], cubeSize)]_vars
\* an arrow press on a Selection of the 3-cube has queued a turn of the first
\* z layer, not yet started
ArrowMoveTranslated ==
  /\ cubeSize = 3 /\ selection = None /\ ~isAnimating /\ Len(moveQueue) = 1
  /\ moveQueue[1].axis = "z" /\ moveQueue[1].layer = 0 /\ moveQueue[1].direction = 0 - 1

\* the piece lies on the hint's layer and on the preferred outer face
OnHintLayerAndFace(c, hint) ==
  /\ Coord(c, hint.axis) = hint.layer * Unit - Offset(cubeSize)
  /\ IF hint.axis = "z" THEN c.y = Offset(cubeSize) ELSE c.z = Offset(cubeSize)

\* C26: in every rest state with a non-empty History the Hint Locator finds,
\* for the inverse of the last History entry, a piece on the hint's layer and
\* on the preferred outer face (front for x and y hints, top for z hints) and
\* produces a Selection of it; a displayed hint always has its Selection.
HintCandidateFound ==
  /\ (Idle /\ Len(history) > 0) =>
       LET hint == Negate(history[Len(history)])
           n == findCandidate(cubies, hint, cubeSize)
       IN  /\ n # 0
           /\ OnHintLayerAndFace(cubies[n], hint)
           /\ hintEffect(hint, selection, cubies, cubeSize) # None
           /\ hintEffect(hint, selection, cubies, cubeSize).id = cubies[n].id
  /\ activeHint # None =>
       /\ selection # None
       /\ selection.face = preferredFace(activeHint)
       /\ OnHintLayerAndFace(CubieById(cubies, selection.id), activeHint)
\* a hint about a z-axis turn is displayed on a piece of the top face
TopFaceHintShown ==
  /\ activeHint # None /\ activeHint.axis = "z" /\ selection # None
  /\ selection.face = "U" /\ selection.cubiePos[2] = Offset(cubeSize)
  /\ selection.id \in Slice(cubies, activeHint, cubeSize)

\* C27: a Selection is created only by a valid face pick or by the Hint
\* Locator; it is cleared when an arrow press submits a move and when the
\* active hint is cleared, and it goes away only by one of these, by a
\* dismissal, an invalid pick or a remount; while a manual move is queued or
\* executing no Selection exists.
SelectionLifecycle ==
  /\ [][(selection = None /\ selection' # None) =>
          \/ /\ ~ClickLocked /\ UNCHANGED appVars
             /\ \E cubieId \in ClickIds(cubies), localPoint \in HitPoints :
                  /\ PickValid(cubieId, localPoint)
                  /\ selection' = clickOutcome(cubieId, localPoint)
          \/ /\ activeHint = None /\ activeHint' # None
             /\ selection' = hintEffect(activeHint', selection, cubies, cubeSize)]_vars
  /\ [][(Len(moveQueue') > Len(moveQueue) /\ ~isShaking') => selection' = None]_vars
  /\ [][(activeHint # None /\ activeHint' = None) => selection' = None]_vars
  /\ [][(selection # None /\ selection' = None) =>
          \/ Len(moveQueue') > Len(moveQueue)
          \/ activeHint # None /\ activeHint' = None
          \/ cubeSize' # cubeSize
          \/ UNCHANGED appVars /\ UNCHANGED cubeVars /\ activeHint = None]_vars
  /\ []((Len(moveQueue) > 0 /\ ~isShaking) => selection = None)
\* the move an arrow press submitted is executing on the 2-cube and the
\* Selection it came from is gone
ArrowMoveExecutingNoSelection ==
  /\ cubeSize = 2 /\ isAnimating /\ animationProgress > 0 /\ ~isShaking
  /\ Len(moveQueue) = 1 /\ currentMove = moveQueue[1] /\ selection = None

\* the progress one tick adds at the given rate
TickIncrements(rate) == {delta * rate : delta \in Deltas}

\* C28: isShaking is never true while the queue is empty; it becomes true
\* exactly when a shuffle or a solve fills the empty queue, stays true while
\* the sequence has moves, and goes false with the move-complete that empties
\* the queue; an isolated manual move is queued and runs with isShaking
\* false, advancing at the default rate 6, a sequence at the configured speed.
ShakingWhileSequenceQueued ==
  /\ [](isShaking => Len(moveQueue) > 0)
  /\ [][(~isShaking /\ isShaking') =>
          /\ Len(moveQueue) = 0 /\ Len(moveQueue') > 0
          /\ \/ history' = history \o moveQueue'
             \/ history' = <<>> /\ moveQueue' = InverseReversed(history)]_vars
  /\ [][(isShaking /\ ~isShaking') =>
          (Len(moveQueue) = 1 /\ Len(moveQueue') = 0 /\ ~isAnimating')]_vars
  /\ [][(isShaking /\ Len(moveQueue') > 0) => isShaking']_vars
  /\ [][(~isShaking /\ ~isShaking' /\ Len(moveQueue') > Len(moveQueue)) =>
          Len(moveQueue') = 1]_vars
  /\ [][(Len(moveQueue) > 0 /\ ~isShaking) => ~isShaking']_vars
  /\ [][animationProgress' > animationProgress =>
          animationProgress' - animationProgress \in
            (IF isShaking THEN UNION {TickIncrements(speed) : speed \in Speeds}
                          ELSE TickIncrements(DefaultAnimSpeed))]_vars
\* an isolated manual move one slow tick into its turn
ManualMoveAtDefaultRate ==
  /\ isAnimating /\ ~isShaking /\ Len(moveQueue) = 1
  /\ animationProgress = 5 * DefaultAnimSpeed

\* C29: whenever the animator is idle, before a turn starts and after it
\* commits, the pivot has the identity rotation and nothing attached; pieces
\* are attached only between startMove and finishMove of one move, and they
\* are that move's slice.
PivotOwnership ==
  /\ [](~isAnimating => (pivot = NoRotation /\ attached = {} /\ currentMove = None))
  /\ [](attached # {} =>
          /\ isAnimating /\ currentMove # None
          /\ Len(moveQueue) > 0 /\ currentMove = moveQueue[1]
          /\ attached = Slice(cubies, currentMove, cubeSize))
  /\ [][(~isAnimating /\ isAnimating') =>
          (pivot' = NoRotation /\ attached' = Slice(cubies, moveQueue[1], cubeSize))]_vars
  /\ [][(isAnimating /\ isAnimating') => (attached' = attached /\ cubies' = cubies)]_vars
\* between two turns of a sequence: the first is committed, the next not yet
\* started, the pivot reset and empty
PivotResetBetweenTurns ==
  /\ ~isAnimating /\ animationProgress >= HalfPi /\ Len(moveQueue) > 0
  /\ pivot = NoRotation /\ attached = {} /\ ~Solved

\* the axis-aligned rotations as products of quarter turns about x, y and z
QuarterTurnProducts ==
  {MatMul(AxisRotation("x", a), MatMul(AxisRotation("y", b), AxisRotation("z", c))) :
     a \in 0..3, b \in 0..3, c \in 0..3}
\* snapTransform leaves the transform (pos, q) as it is
SnapFixed(pos, q, size) ==
  LET snapped == snapTransform([pos |-> pos, q |-> q, tilt |-> 0], size)
  IN  snapped.pos = pos /\ snapped.q = q

\* C30: for both parities of N every lattice value is a fixed point of the
\* position snap and every one of the 24 axis-aligned rotations a fixed point
\* of the orientation snap; so every committed transform is unchanged by
\* snapping, and snapping the re-attached transform of a turning piece twice
\* gives what snapping it once gives.
SnapIdempotent ==
  /\ \A size \in Sizes : \A v \in Lattice(size) : snap(v, size) = v
  /\ Cardinality(QuarterTurnProducts) = 24
  /\ \A m \in QuarterTurnProducts :
       m \in CubeRotations /\
       SnapFixed(<< Offset(cubeSize), -Offset(cubeSize), Offset(cubeSize) >>, m, cubeSize)
  /\ \A n \in 1..Len(cubies) :
       SnapFixed(<< cubies[n].x, cubies[n].y, cubies[n].z >>, cubies[n].q, cubeSize)
  /\ isAnimating =>
       \A n \in 1..Len(cubies), drift \in Drifts :
         cubies[n].id \in attached =>
           LET raw == attachToWorld(cubies[n],
                        setRotationFromAxisAngle(currentMove.axis,
                                                 currentRot(HalfPi, currentMove)), drift)
               once == snapTransform(raw, cubeSize)
           IN  /\ SnapFixed(once.pos, once.q, cubeSize)
               /\ once.pos \in Lattice(cubeSize) \X Lattice(cubeSize) \X Lattice(cubeSize)
\* a piece of the even cube whose orientation was snapped at the Euler
\* singularity (y angle of a quarter turn) is turning again
GimbalLockedPieceTurning ==
  /\ cubeSize = 2 /\ isAnimating /\ Len(history) = 2
  /\ \E n \in 1..Len(cubies) : cubies[n].id \in attached /\ Abs(cubies[n].q[1][3]) = 1

\* coordinates offered to the position snap, up to one and a half lattice
\* steps either side of the origin: every twentieth of a step, and the values
\* within two epsilons of a lattice value or of a midpoint
MaxSnapInput == 1500
SnapInputs ==
  {v \in {h * Half + d : h \in (0 - 3)..3, d \in (0 - 2)..2}
            \cup {k * (Unit \div 20) : k \in (0 - 30)..30}
            \cup {0 - MaxSnapInput, MaxSnapInput} :
     Abs(v) <= MaxSnapInput}
\* the lattice of the parity of size, continued past the cube
ParityLattice(size) ==
  {k * Unit + (IF size % 2 = 0 THEN Half ELSE 0) : k \in (0 - 3)..2}
\* the values of the parity lattice nearest to val (two at a midpoint)
NearestLattice(val, size) ==
  {l \in ParityLattice(size) : \A o \in ParityLattice(size) : Abs(val - l) <= Abs(val - o)}
\* val lies less than the rounding epsilon below a midpoint of the lattice
InBiasBand(val, size) ==
  \E l \in ParityLattice(size) : val < l - Half /\ val >= l - Half - SnapEpsilon

\* C31: for every input value the position snap gives a value of the parity
\* lattice (half-integers for even N, integers for odd N) that is nearest to
\* the input, and an exact midpoint always goes to the same side.
SnapRoundsToNearest ==
  \A val \in SnapInputs :
    /\ snap(val, cubeSize) \in NearestLattice(val, cubeSize)
    /\ Cardinality(NearestLattice(val, cubeSize)) = 2 => snap(val, cubeSize) > val
\* C31, the part the code keeps: the snap always gives a value of the parity
\* lattice; it is the nearest one, midpoints going up, for every input that
\* is not within the rounding epsilon below a midpoint, and such an input goes
\* up to the farther value; the coordinates a commit snaps are never there.
SnapNearestOffBiasBand ==
  /\ [](\A val \in SnapInputs :
          /\ snap(val, cubeSize) \in ParityLattice(cubeSize)
          /\ ~InBiasBand(val, cubeSize) =>
               /\ snap(val, cubeSize) \in NearestLattice(val, cubeSize)
               /\ Cardinality(NearestLattice(val, cubeSize)) = 2 => snap(val, cubeSize) > val
          /\ InBiasBand(val, cubeSize) =>
               /\ snap(val, cubeSize) > val
               /\ snap(val, cubeSize) \notin NearestLattice(val, cubeSize))
  /\ [](isAnimating =>
          \A n \in 1..Len(cubies), drift \in Drifts :
            cubies[n].id \in attached =>
              LET raw == attachToWorld(cubies[n],
                           setRotationFromAxisAngle(currentMove.axis,
                                                    currentRot(HalfPi, currentMove)), drift)
              IN  \A i \in 1..3 :
                    /\ Abs(raw.pos[i]) <= MaxSnapInput
                    /\ ~InBiasBand(raw.pos[i], cubeSize)
                    /\ snap(raw.pos[i], cubeSize) \in NearestLattice(raw.pos[i], cubeSize))
\* an odd cube, for which the input 0.499 is snapped to 1 although 0 is nearer
BiasBandInputSnappedUp ==
  /\ cubeSize = 3 /\ isAnimating
  /\ InBiasBand(Half - SnapEpsilon, cubeSize)
  /\ snap(Half - SnapEpsilon, cubeSize) = Unit
  /\ NearestLattice(Half - SnapEpsilon, cubeSize) = {0}

\* a rigid quarter turn of the layer of the move, applied to a piece set
ApplyMove(cs, move, size) ==
  [n \in 1..Len(cs) |->
     IF Coord(cs[n], move.axis) = move.layer * Unit - Offset(size)
       THEN Turned(cs[n], move) ELSE cs[n]]
\* the moves of h applied in order, first to last
RECURSIVE ApplyMoves(_, _, _)
ApplyMoves(cs, h, size) ==
  IF Len(h) = 0 THEN cs ELSE ApplyMoves(ApplyMove(cs, Head(h), size), Tail(h), size)

\* C32: in every idle state (queue empty, no turn animating), whatever the
\* interleaving of shuffle, manual moves, hint, hint-undo and solve that led
\* to it, the cube is the solved cube with the moves of History applied in
\* order; with an empty History the cube is solved.
HistoryTracksCube ==
  Idle =>
    /\ cubies = ApplyMoves(initialPositions(cubeSize), history, cubeSize)
    /\ Len(history) = 0 => Solved
\* a manual move about another axis has been executed on top of an earlier
\* move and recorded behind it
ManualMoveTrackedAfterShuffle ==
  /\ Idle /\ ~isShaking /\ Len(history) = 2 /\ history[1].axis # history[2].axis
  /\ animationProgress >= HalfPi /\ animationProgress < HalfPi + 10 * DefaultAnimSpeed
  /\ ~Solved /\ selection = None

\* the current coordinates of the pieces
Occupied == {<< cubies[n].x, cubies[n].y, cubies[n].z >> : n \in 1..Len(cubies)}

\* C33: after any sequence of committed moves no two pieces share a current
\* coordinate and the occupied coordinates are exactly the surface lattice
\* points of the N x N x N grid; a commit only permutes the pieces among them.
OccupancyBijection ==
  /\ [](/\ Cardinality(Occupied) = Len(cubies)
        /\ Occupied = SurfacePoints(cubeSize))
  /\ [][CommitStep => (Occupied' = Occupied /\ Len(cubies') = Len(cubies))]_vars
\* two turns about different axes have been committed on the 3-cube: a piece
\* sits where another piece was generated
PiecesPermutedOnSurface ==
  /\ cubeSize = 3 /\ Idle /\ Len(history) = 2 /\ history[1].axis # history[2].axis
  /\ \E n \in 1..Len(cubies), k \in 1..Len(cubies) :
       /\ n # k
       /\ << cubies[n].x, cubies[n].y, cubies[n].z >>
            = << cubies[k].initialX, cubies[k].initialY, cubies[k].initialZ >>

\* C34: in every rest state each piece's current coordinate is its current
\* orientation applied to its initial coordinate, so every sticker-carrying
\* face of every piece is an exterior face of the assembled cube.
RigidConsistency ==
  ~isAnimating =>
    \A n \in 1..Len(cubies) :
      /\ << cubies[n].x, cubies[n].y, cubies[n].z >>
           = MatVec(cubies[n].q,
                    << cubies[n].initialX, cubies[n].initialY, cubies[n].initialZ >>)
      /\ \A face \in isActive(cubies[n], cubeSize) : ExteriorFace(cubies[n], face)
\* a piece of the 3-cube that carries an R sticker rests off the +x face after
\* two turns, the sticker on the exterior
StickerOutwardAfterTwoTurns ==
  /\ cubeSize = 3 /\ Idle /\ Len(history) = 2 /\ history[1].axis # history[2].axis
  /\ \E n \in 1..Len(cubies) :
       /\ "R" \in isActive(cubies[n], cubeSize)
       /\ cubies[n].x # Offset(cubeSize)
       /\ MatVec(cubies[n].q, localNormalOf("R")) # <<1, 0, 0>>
       /\ ExteriorFace(cubies[n], "R")

\* the outward-facing check on a local face of the piece as it is now
Pickable(c, face) == checkFaceOrientation(face, c.q, c.x, c.y, c.z, cubeSize)

\* C35: in every rest state a local face of a piece passes
\* checkFaceOrientation exactly when it carries a sticker, that is when the
\* isActive flag computed from the initial coordinate is true.
PickableIffStickered ==
  ~isAnimating =>
    \A n \in 1..Len(cubies), face \in Faces :
      Pickable(cubies[n], face) <=> face \in isActive(cubies[n], cubeSize)
\* a piece of the 3-cube displaced and rotated by two turns: a stickered face
\* of it passes the check, a bare face does not
RotatedPieceStickerPickable ==
  /\ cubeSize = 3 /\ Idle /\ Len(history) = 2 /\ history[1].axis # history[2].axis
  /\ \E n \in 1..Len(cubies), face \in Faces, bare \in Faces :
       /\ cubies[n].q # Identity /\ cubies[n].y # cubies[n].initialY
       /\ face \in isActive(cubies[n], cubeSize) /\ Pickable(cubies[n], face)
       /\ MatVec(cubies[n].q, localNormalOf(face)) # localNormalOf(face)
       /\ bare \notin isActive(cubies[n], cubeSize) /\ ~Pickable(cubies[n], bare)

\* C36: while a turn is animating, the move being animated is the head of the
\* queue, so the queue is not empty; no handler of the app changes the queue
\* then, and the queue changes only by the move-complete callback of that
\* turn's commit, which removes the head.
QueueHeldWhileAnimating ==
  /\ [](isAnimating =>
          /\ Len(moveQueue) > 0 /\ currentMove = Head(moveQueue)
          /\ \A newMoves \in [1..shuffleCount(cubeSize) -> Moves(cubeSize)] :
               handleShuffle(AppState, newMoves).moveQueue = moveQueue
          /\ handleSolve(AppState).moveQueue = moveQueue
          /\ \A m \in Moves(cubeSize) : handleDirectMove(AppState, m).moveQueue = moveQueue
          /\ \A newSize \in Sizes : handleSizeChange(AppState, newSize).moveQueue = moveQueue
          /\ handleHint(AppState).moveQueue = moveQueue
          /\ handleEscape(AppState).moveQueue = moveQueue)
  /\ [][(isAnimating /\ isAnimating') =>
          (moveQueue' = moveQueue /\ currentMove' = Head(moveQueue'))]_vars
  /\ [][(isAnimating /\ moveQueue' # moveQueue) =>
          (CommitStep /\ moveQueue' = Tail(moveQueue))]_vars
\* a manual move recorded behind an earlier one is part-way through its turn
SecondManualTurnPartWay ==
  /\ isAnimating /\ ~isShaking /\ animationProgress > 0 /\ animationProgress < HalfPi
  /\ moveQueue = << currentMove >> /\ Len(history) = 2 /\ history[2] = currentMove
  /\ pivot # NoRotation

\* what a handler returned changed History and left a hint
HistoryChangedHintLeft(a) == a.history # history /\ a.activeHint # None

\* C37: whenever a hint is active, History is non-empty and the hint has the
\* axis and layer of the last History entry and the opposite direction; every
\* operation that changes History (shuffle, solve, accepted manual move, size
\* change) clears the hint.
HintConsistency ==
  /\ [](activeHint # None =>
          /\ Len(history) > 0
          /\ activeHint.axis = history[Len(history)].axis
          /\ activeHint.layer = history[Len(history)].layer
          /\ activeHint.direction = 0 - history[Len(history)].direction)
  /\ [](/\ \A newMoves \in [1..shuffleCount(cubeSize) -> Moves(cubeSize)] :
             ~HistoryChangedHintLeft(handleShuffle(AppState, newMoves))
        /\ ~HistoryChangedHintLeft(handleSolve(AppState))
        /\ \A m \in Moves(cubeSize) : ~HistoryChangedHintLeft(handleDirectMove(AppState, m))
        /\ \A newSize \in Sizes : ~HistoryChangedHintLeft(handleSizeChange(AppState, newSize)))
  /\ [][history' # history => activeHint' = None]_vars
\* a hint is displayed for the second of two different recorded moves
HintForSecondMove ==
  /\ activeHint # None /\ Len(history) = 2 /\ history[1] # history[2]
  /\ activeHint = Negate(history[2]) /\ selection # None

SignedUnitAxes ==
  { <<1, 0, 0>>, <<-1, 0, 0>>, <<0, 1, 0>>, <<0, -1, 0>>, <<0, 0, 1>>, <<0, 0, -1>> }
\* the selected piece's current orientation applied to the local outward
\* normal of the Selection's face
CurrentFaceNormal(sel) == MatVec(CubieById(cubies, sel.id).q, localNormalOf(sel.face))

\* C38: whenever a Selection exists (the cube at rest), its worldNormal is a
\* signed unit axis vector and equals the selected piece's current
\* orientation applied to the local outward normal of the Selection's face,
\* also after moves have rotated the selected piece.
SelectionNormalIsCurrent ==
  (selection # None /\ ~isAnimating) =>
    /\ selection.normal \in SignedUnitAxes
    /\ selection.normal = CurrentFaceNormal(selection)
\* C38, the part the code keeps: a Selection that a pick or the hint creates
\* has the normal of the claim, a signed unit axis vector when the hit point
\* is off the ties; a commit refreshes the cached coordinate and leaves the
\* normal as it was picked.
SelectionNormalAsPicked ==
  /\ [](selection # None => selection.normal \in SignedUnitAxes)
  /\ [][(selection' # None /\ selection' # selection /\ ~CommitStep) =>
          selection'.normal = MatVec(CubieById(cubies', selection'.id).q,
                                     localNormalOf(selection'.face))]_vars
  /\ [][(CommitStep /\ selection # None) =>
          (selection' # None /\ selection'.normal = selection.normal
           /\ selection'.face = selection.face /\ selection'.id = selection.id)]_vars
\* a shuffle started while a Selection existed has turned the selected piece:
\* at rest the Selection still carries the normal picked before the turn
StaleNormalAfterShuffle ==
  /\ Idle /\ ~isShaking /\ activeHint = None /\ selection # None /\ Len(history) > 0
  /\ animationProgress >= HalfPi + 10 * DefaultAnimSpeed
  /\ selection.normal \in SignedUnitAxes
  /\ selection.normal # CurrentFaceNormal(selection)

\* the Selection the Hint Locator produces for a hint in the present state
HintSelection(hint) == hintEffect(hint, None, cubies, cubeSize)
\* the world direction of the preferred face: front for x and y hints, top
\* for z hints
PreferredDirection(hint) == IF hint.axis = "z" THEN <<0, 1, 0>> ELSE <<0, 0, 1>>

\* C39: in every rest state the Selection the Hint Locator produces for the
\* inverse of the last History entry designates an exterior face: the chosen
\* piece and the preferred face pass checkFaceOrientation, and the
\* Selection's worldNormal is world +z for face F, world +y for face U.
HintSelectionIsExterior ==
  (Idle /\ Len(history) > 0) =>
    LET hint == Negate(history[Len(history)])
        sel == HintSelection(hint)
    IN  /\ sel # None
        /\ Pickable(CubieById(cubies, sel.id), sel.face)
        /\ sel.normal = PreferredDirection(hint)
\* C39, the part the code keeps: the Hint Locator always produces a Selection
\* of a piece on the hint's layer and on the preferred world face, with the
\* piece's orientation applied to the local normal of F or U as its normal;
\* the claim holds whenever the chosen piece has the identity orientation.
HintSelectionOnPreferredFace ==
  (Idle /\ Len(history) > 0) =>
    LET hint == Negate(history[Len(history)])
        sel == HintSelection(hint)
    IN  /\ sel # None
        /\ sel.face = preferredFace(hint)
        /\ OnHintLayerAndFace(CubieById(cubies, sel.id), hint)
        /\ sel.normal = CurrentFaceNormal(sel)
        /\ sel.normal \in SignedUnitAxes
        /\ CubieById(cubies, sel.id).q = Identity =>
             /\ Pickable(CubieById(cubies, sel.id), sel.face)
             /\ sel.normal = PreferredDirection(hint)
\* a hint is displayed on a piece that the hinted layer's last turn rotated:
\* the Selection's face is not an exterior face and its normal is not the
\* direction of the preferred face
HintOnRotatedPiece ==
  /\ activeHint # None /\ selection # None /\ ~isAnimating
  /\ selection = HintSelection(activeHint)
  /\ ~Pickable(CubieById(cubies, selection.id), selection.face)
  /\ selection.normal # PreferredDirection(activeHint)

\* startMove has run for the head of the queue the frame callback sees, and
\* the render that follows has not: the callback still reads isAnimating =
\* false and the queue of before
StartPending ==
  /\ ~renderedIsAnimating /\ Len(renderedMoveQueue) > 0
  /\ isAnimating \/ moveQueue # renderedMoveQueue
\* a step of the frame callback (neither a render nor the parent's update)
TickStep == UNCHANGED renderVars /\ UNCHANGED history

\* C40: a frame tick that runs after startMove was called for the queue head
\* and before the component re-renders does not fire the move-complete
\* callback again and removes no queued move, whether the head is a normal
\* move or gathers no piece: the tick leaves the queue as it is.
LaggedTickRemovesNothing ==
  [][(StartPending /\ TickStep) => moveQueue' = moveQueue]_vars
\* C40, the part the code keeps: when the head is a normal move (its turn is
\* in flight), the lagging tick runs startMove for the same move again and
\* changes nothing: the same pieces stay attached, the progress stays zero,
\* the callback is not called; and a turn in flight still implies its move at
\* the head of the queue.
LaggedTickOnNormalMoveIdle ==
  /\ [][(StartPending /\ isAnimating /\ TickStep) =>
          /\ moveQueue' = moveQueue /\ isShaking' = isShaking
          /\ cubies' = cubies /\ attached' = attached /\ pivot' = pivot
          /\ isAnimating' /\ currentMove' = currentMove
          /\ animationProgress' = animationProgress]_vars
  /\ [](isAnimating => (Len(moveQueue) > 0 /\ currentMove = Head(moveQueue)))
  /\ [][Len(moveQueue') < Len(moveQueue) => moveQueue' = Tail(moveQueue)]_vars
\* a move that gathers pieces was queued behind one that gathers none, and
\* the queue has emptied without it ever being started: the cube is solved
\* and no turn was ever committed
UnstartedMoveRemoved ==
  /\ ~isAnimating /\ Len(moveQueue) = 0 /\ renderVars = <<isAnimating, moveQueue>>
  /\ Len(history) = 2 /\ Slice(cubies, history[1], cubeSize) = {}
  /\ Slice(cubies, history[2], cubeSize) # {}
  /\ animationProgress = 0 /\ Solved

\* frameTick and useFrame are the same steps
TickIsUseFrame == [][frameTick <=> useFrame]_vars
====
